---- MODULE Spec2Model ----
(***************************************************************************)
(* Brief2Bill: the output-normalisation and repair pipeline.               *)
(*                                                                         *)
(* Money is held as an integer number of units of 10^-5 rupee, so that one *)
(* paisa is 1000 units and one rupee 100000 units: a product of a quantity *)
(* in tenths, a price in paise and a whole tax percentage is then exact.   *)
(* Python's round(x, 2) and round(x) are modelled as round-half-to-even on *)
(* the exact decimal value.                                                *)
(***************************************************************************)
EXTENDS Integers, Sequences, FiniteSets, TLC

VARIABLES
    items,      \* totals engine: the line items handed to the computation
    shipping,   \* totals engine: the shipping value of the draft's totals block
    totDraft,   \* Totals of compute_totals(draft)           (app/services/totals.py)
    totNorm,    \* Totals of _calculate_totals(items, ship)   (output_processing.py)
    draftDict,  \* draft of recompute_draft_totals(draft)    (ai-backend totals.py)
    totAgain,   \* totals engine: the outcome of a second computation on the computed draft
    upiReq,     \* UPI endpoint: the arguments of the request
    upiOut,     \* UPI endpoint: the response
    genRequest, \* normaliser: the generation request
    rawPayload, \* normaliser: the payload parsed from the provider's reply
    doc,        \* normaliser: the outcome of build_quotation_output / build_invoice_output
    briefRaw,   \* project brief: the payload parsed from the provider's reply
    brief,      \* project brief: the outcome of build_project_brief_output
    bundleIn,   \* repair: the bundle the caller holds
    repaired,   \* repair: the outcome of repair_bundle
    llmResult,  \* extraction: what provider.generate gave, a text or an exception
    extracted,  \* extraction: the outcome of extract_json on the text
    response,   \* extraction: what a generation entry point gave its caller
    inWords,    \* amount in words: the amount put into words and the wording returned
    _providers, \* provider service: the names of the providers with an API key
    _selections, \* provider service: the selection stored for each workspace
    lastSet,    \* provider service: the last successful select request of each workspace
    provResponse, \* provider service: the response to the last request
    per_minute, \* rate limiter: the hits allowed per key within a window
    _hits,      \* rate limiter: the times of the hits kept for each key
    clock,      \* rate limiter: what time.time() returns, in seconds
    granted,    \* rate limiter: the times of all the calls that returned true, per key
    allowed     \* rate limiter: the last call of allow and what it returned

totalsVars == <<items, shipping, totDraft, totNorm, draftDict, totAgain>>
upiVars == <<upiReq, upiOut>>
normVars == <<genRequest, rawPayload, doc>>
briefVars == <<briefRaw, brief>>
repairVars == <<bundleIn, repaired>>
extractVars == <<llmResult, extracted, response>>
wordsVars == <<inWords>>
providerVars == <<_providers, _selections, lastSet, provResponse>>
limiterVars == <<per_minute, _hits, clock, granted, allowed>>

vars ==
    <<totalsVars, upiVars, normVars, briefVars, repairVars, extractVars, wordsVars,
      providerVars, limiterVars>>

\* an output that has not been produced yet
Absent == [absent |-> TRUE]

\* each component before anything is handed to it
TotalsIdle ==
    /\ items = <<>>
    /\ shipping = 0
    /\ totDraft = Absent
    /\ totNorm = Absent
    /\ draftDict = Absent
    /\ totAgain = Absent
UpiIdle == upiReq = Absent /\ upiOut = Absent
NormIdle == genRequest = Absent /\ rawPayload = Absent /\ doc = Absent

BriefIdle == briefRaw = Absent /\ brief = Absent

RepairIdle == bundleIn = Absent /\ repaired = Absent

ExtractIdle == llmResult = Absent /\ extracted = Absent /\ response = Absent

WordsIdle == inWords = Absent

\* before ProviderService is constructed
ProviderIdle ==
    /\ _providers = Absent
    /\ _selections = Absent
    /\ lastSet = Absent
    /\ provResponse = Absent

\* before RateLimiter is constructed
LimiterIdle ==
    /\ per_minute = 0
    /\ _hits = Absent
    /\ clock = 0
    /\ granted = Absent
    /\ allowed = Absent

Init ==
    /\ TotalsIdle /\ UpiIdle /\ NormIdle /\ BriefIdle /\ RepairIdle /\ ExtractIdle
    /\ WordsIdle /\ ProviderIdle /\ LimiterIdle

\* the variables each component leaves alone
outsideTotals ==
    <<upiVars, normVars, briefVars, repairVars, extractVars,
      wordsVars, providerVars, limiterVars>>
outsideUpi ==
    <<totalsVars, normVars, briefVars, repairVars, extractVars,
      wordsVars, providerVars, limiterVars>>
outsideNorm ==
    <<totalsVars, upiVars, briefVars, repairVars, extractVars,
      wordsVars, providerVars, limiterVars>>
outsideBrief ==
    <<totalsVars, upiVars, normVars, repairVars, extractVars,
      wordsVars, providerVars, limiterVars>>
outsideRepair ==
    <<totalsVars, upiVars, normVars, briefVars, extractVars,
      wordsVars, providerVars, limiterVars>>
outsideExtract ==
    <<totalsVars, upiVars, normVars, briefVars, repairVars,
      wordsVars, providerVars, limiterVars>>
outsideWords ==
    <<totalsVars, upiVars, normVars, briefVars, repairVars,
      extractVars, providerVars, limiterVars>>
outsideProvider ==
    <<totalsVars, upiVars, normVars, briefVars, repairVars,
      extractVars, wordsVars, limiterVars>>
outsideLimiter ==
    <<totalsVars, upiVars, normVars, briefVars, repairVars,
      extractVars, wordsVars, providerVars>>

Paise == 10 * 100
Rupee == 100 * Paise

(* ---------------------------------------------------------------------- *)
(* Rounding                                                               *)
(* ---------------------------------------------------------------------- *)

\* round-half-to-even of n / d, d > 0 (Python's round on an exact value)
RoundHalfEven(n, d) ==
    LET q == n \div d
        r == n % d
    IN  IF 2 * r < d THEN q
        ELSE IF 2 * r > d THEN q + 1
        ELSE IF q % 2 = 0 THEN q ELSE q + 1

\* round(x, 2): to a whole number of paise
Round2(x) == RoundHalfEven(x, Paise) * Paise

\* round(x): to a whole number of rupees
Round0(x) == RoundHalfEven(x, Rupee) * Rupee

Max(a, b) == IF a >= b THEN a ELSE b
Min(a, b) == IF a <= b THEN a ELSE b

RECURSIVE SumSeq(_)
SumSeq(s) == IF s = <<>> THEN 0 ELSE Head(s) + SumSeq(Tail(s))


\* qty is held in tenths: qty * unit_price
Gross(item) == (item.qty * item.unit_price) \div 10

\* x * (tax_rate / 100), x a whole number of 10^-3 rupee
TaxOn(x, rate) == (x \div 100) * rate

(* ---------------------------------------------------------------------- *)
(* Amount in words (Indian numbering).  A text is the sequence of its     *)
(* space-separated words; IndexError stands for the exception a list      *)
(* lookup raises.                                                         *)
(* ---------------------------------------------------------------------- *)

IndexError == <<"IndexError">>

Crore == 10000000
Lakh == 100000
Thousand == 1000
Hundred == 100

_ONES == <<"", "One", "Two", "Three", "Four", "Five", "Six", "Seven", "Eight", "Nine">>
_TEENS == <<"Ten", "Eleven", "Twelve", "Thirteen", "Fourteen", "Fifteen",
            "Sixteen", "Seventeen", "Eighteen", "Nineteen">>
_TENS == <<"", "", "Twenty", "Thirty", "Forty", "Fifty", "Sixty", "Seventy", "Eighty", "Ninety">>

\* the words of a text piece: an empty piece contributes no word
Word(w) == IF w = "" THEN <<>> ELSE <<w>>

\* list[i] of Python as the words of the entry: 0-based, a negative index
\* counts from the end, an index out of range raises
PyIndex(list, i) ==
    IF i >= 0 /\ i < Len(list) THEN Word(list[i + 1])
    ELSE IF i < 0 /\ -i <= Len(list) THEN Word(list[Len(list) + i + 1])
    ELSE IndexError

\* sequence concatenation that lets an IndexError through
Join(a, b) == IF a = IndexError \/ b = IndexError THEN IndexError ELSE a \o b

\* int(x): truncation toward zero of x / d
Trunc(x, d) == IF x >= 0 THEN x \div d ELSE -((-x) \div d)

\* _two_digit_words(value) of app/services/totals.py, stripped of blanks
_two_digit_words(value) ==
    IF value < 10 THEN PyIndex(_ONES, value)
    ELSE IF value < 20 THEN PyIndex(_TEENS, value - 10)
    ELSE Join(PyIndex(_TENS, value \div 10), PyIndex(_ONES, value % 10))

\* one pass of the loop over _INDIAN_SCALE: the part appended for a group
ScalePart(current, divider, label) ==
    IF current = 0 THEN <<>>
    ELSE IF divider = Hundred THEN Join(PyIndex(_ONES, current), <<label>>)
    ELSE Join(_two_digit_words(current), <<label>>)

\* number_to_words_indian of app/services/totals.py on rupees and paise
WordsOfRupees(rupees, paise) ==
    LET c1 == rupees \div Crore
        r1 == IF c1 # 0 THEN rupees % Crore ELSE rupees
        c2 == r1 \div Lakh
        r2 == IF c2 # 0 THEN r1 % Lakh ELSE r1
        c3 == r2 \div Thousand
        r3 == IF c3 # 0 THEN r2 % Thousand ELSE r2
        c4 == r3 \div Hundred
        r4 == IF c4 # 0 THEN r3 % Hundred ELSE r3
        parts == Join(Join(Join(Join(ScalePart(c1, Crore, "Crore"),
                                     ScalePart(c2, Lakh, "Lakh")),
                                ScalePart(c3, Thousand, "Thousand")),
                           ScalePart(c4, Hundred, "Hundred")),
                      IF r4 # 0 THEN _two_digit_words(r4) ELSE <<>>)
        words == IF parts = <<>> THEN <<"Zero">> ELSE parts
        tail == IF paise # 0
                THEN Join(Join(<<"and">>, _two_digit_words(paise)), <<"Paise">>)
                ELSE <<>>
    IN  Join(Join(Join(words, <<"Rupees">>), tail), <<"Only">>)

\* number_to_words_indian(amount), amount in units of 10^-5 rupee
number_to_words_indian(amount) ==
    IF amount = 0 THEN <<"Zero", "Rupees", "Only">>
    ELSE LET rupees == Trunc(amount, Rupee)
         IN  WordsOfRupees(rupees, RoundHalfEven(amount - rupees * Rupee, Paise))

\* convert_below_hundred of ai-backend/app/services/totals.py; "" is <<>>
convert_below_hundred(n) ==
    IF n = 0 THEN <<>>
    ELSE IF n < 10 THEN PyIndex(_ONES, n)
    ELSE IF n < 20 THEN PyIndex(_TEENS, n - 10)
    ELSE Join(PyIndex(_TENS, n \div 10), IF n % 10 # 0 THEN PyIndex(_ONES, n % 10) ELSE <<>>)

\* convert_below_thousand of ai-backend/app/services/totals.py
convert_below_thousand(n) ==
    IF n = 0 THEN <<>>
    ELSE IF n < 100 THEN convert_below_hundred(n)
    ELSE Join(Join(PyIndex(_ONES, n \div 100), <<"Hundred">>),
              IF n % 100 # 0 THEN convert_below_hundred(n % 100) ELSE <<>>)

\* number_to_words_indian of ai-backend/app/services/totals.py on rupees and
\* paise; an empty join leaves the text beginning with a blank, kept as ""
WordsOfRupeesDict(rupees, paise) ==
    LET crore == rupees \div Crore
        lakh == (rupees % Crore) \div Lakh
        thousand == (rupees % Lakh) \div Thousand
        hundred == rupees % Thousand
        result ==
            Join(Join(Join(
                IF crore > 0 THEN Join(convert_below_hundred(crore), <<"Crore">>) ELSE <<>>,
                IF lakh > 0 THEN Join(convert_below_hundred(lakh), <<"Lakh">>) ELSE <<>>),
                IF thousand > 0 THEN Join(convert_below_hundred(thousand), <<"Thousand">>) ELSE <<>>),
                IF hundred > 0 THEN convert_below_thousand(hundred) ELSE <<>>)
        words == Join(IF result = <<>> THEN <<"">> ELSE result, <<"Rupees">>)
        tail == IF paise > 0
                THEN Join(Join(<<"and">>, convert_below_hundred(paise)), <<"Paise">>)
                ELSE <<>>
    IN  Join(Join(words, tail), <<"Only">>)

\* number_to_words_indian(num) of ai-backend/app/services/totals.py
number_to_words_indian_dict(num) ==
    IF num = 0 THEN <<"Zero", "Rupees", "Only">>
    ELSE LET rupees == Trunc(num, Rupee)
         IN  WordsOfRupeesDict(rupees, RoundHalfEven(num - rupees * Rupee, Paise))

(* ---------------------------------------------------------------------- *)
(* Totals engine                                                          *)
(* ---------------------------------------------------------------------- *)

MaxItems == 2

QtySet == {10, 15}                          \* 1 and 1.5
PriceSet == {100 * Rupee, 3333 * Paise}     \* 100.00 and 33.33
DiscountSet == {0, 10 * Rupee, 150 * Rupee}
TaxRateSet == {0, 18}
ShippingSet == {0, 4950 * Paise, 126 * (Paise \div 10)}   \* 0, 49.50, 0.126

ItemSet == [qty : QtySet, unit_price : PriceSet, discount : DiscountSet, tax_rate : TaxRateSet]

\* compute_line(item) of app/services/totals.py
compute_line(item) ==
    LET line_total == Max(Gross(item) - item.discount, 0)
        line_tax == TaxOn(line_total, item.tax_rate)
    IN  [line_total |-> Round2(line_total), line_tax |-> Round2(line_tax)]

LineTotalOf(item) == compute_line(item).line_total
LineTaxOf(item) == compute_line(item).line_tax
DiscountOf(item) == item.discount

\* aggregate_totals(items) of app/services/totals.py
aggregate_totals(its) ==
    [subtotal |-> Round2(SumSeq([i \in 1..Len(its) |-> LineTotalOf(its[i])])),
     discount_total |-> Round2(SumSeq([i \in 1..Len(its) |-> DiscountOf(its[i])])),
     tax_total |-> Round2(SumSeq([i \in 1..Len(its) |-> LineTaxOf(its[i])]))]

\* compute_totals(draft) with the round-off folded into the shipping it returns
compute_totals_folding(its, ship) ==
    LET agg == aggregate_totals(its)
        preliminary_total == agg.subtotal - agg.discount_total + agg.tax_total + ship
        rounded == Round0(preliminary_total)
        round_off == Round2(rounded - preliminary_total)
        grand_total == Round2(preliminary_total + round_off)
    IN  [subtotal |-> agg.subtotal,
         discount_total |-> agg.discount_total,
         tax_total |-> agg.tax_total,
         shipping |-> ship + round_off,
         round_off |-> round_off,
         grand_total |-> grand_total,
         amount_in_words |-> number_to_words_indian(grand_total)]

\* compute_totals(draft) of app/services/totals.py
compute_totals(its, ship) ==
    LET agg == aggregate_totals(its)
        preliminary_total == agg.subtotal - agg.discount_total + agg.tax_total + ship
        rounded == Round0(preliminary_total)
        round_off == Round2(rounded - preliminary_total)
        grand_total == Round2(preliminary_total + round_off)
    IN  [subtotal |-> agg.subtotal,
         discount_total |-> agg.discount_total,
         tax_total |-> agg.tax_total,
         shipping |-> ship,
         round_off |-> round_off,
         grand_total |-> grand_total,
         amount_in_words |-> number_to_words_indian(grand_total)]

CappedDiscount(item) == Min(item.discount, Gross(item))
NetTax(item) == TaxOn(Max(Gross(item) - CappedDiscount(item), 0), Max(item.tax_rate, 0))

\* _calculate_totals(items, shipping) of output_processing.py
_calculate_totals(its, ship) ==
    LET subtotal == Round2(SumSeq([i \in 1..Len(its) |-> Gross(its[i])]))
        discount_total == Round2(SumSeq([i \in 1..Len(its) |-> CappedDiscount(its[i])]))
        tax_total == Round2(SumSeq([i \in 1..Len(its) |-> NetTax(its[i])]))
        shp == Round2(ship)
        pre_round == subtotal - discount_total + tax_total + shp
        rounded == Round0(pre_round)
        round_off == Round2(rounded - pre_round)
        grand_total == Round2(pre_round + round_off)
    IN  [subtotal |-> subtotal,
         discount_total |-> discount_total,
         tax_total |-> tax_total,
         shipping |-> shp,
         round_off |-> round_off,
         grand_total |-> grand_total,
         amount_in_words |-> number_to_words_indian_dict(grand_total)]

\* compute_line_totals(item) of ai-backend/app/services/totals.py
compute_line_totals(item) ==
    LET line_total == Gross(item) - item.discount
        line_tax == TaxOn(line_total, item.tax_rate)
    IN  [qty |-> item.qty, unit_price |-> item.unit_price, discount |-> item.discount,
         tax_rate |-> item.tax_rate,
         line_total |-> Round2(line_total), line_tax |-> Round2(line_tax)]

DictLineTotal(item) == item.line_total
DictLineTax(item) == item.line_tax

\* compute_totals(items, currency) of ai-backend/app/services/totals.py
compute_totals_dict(its, currency) ==
    LET subtotal == SumSeq([i \in 1..Len(its) |-> DictLineTotal(its[i])])
        discount_total == SumSeq([i \in 1..Len(its) |-> DiscountOf(its[i])])
        tax_total == SumSeq([i \in 1..Len(its) |-> DictLineTax(its[i])])
        shp == 0
        grand == subtotal + tax_total + shp
        round_off == Round0(grand) - grand
    IN  [subtotal |-> Round2(subtotal),
         discount_total |-> Round2(discount_total),
         tax_total |-> Round2(tax_total),
         shipping |-> Round2(shp),
         round_off |-> Round2(round_off),
         grand_total |-> Round0(grand),
         currency |-> currency,
         amount_in_words |-> number_to_words_indian_dict(Round0(grand))]

\* recompute_draft_totals(draft) of ai-backend/app/services/totals.py
\* currency is what draft.get("totals", {}).get("currency", "INR") read
recompute_draft_totals(its, currency) ==
    LET lines == [i \in 1..Len(its) |-> compute_line_totals(its[i]) @@ [sno |-> i]]
    IN  [items |-> lines, totals |-> compute_totals_dict(lines, currency)]

NoOutput == totDraft = Absent /\ totNorm = Absent /\ draftDict = Absent

\* the caller builds the draft: one more line item
AddItem ==
    /\ NoOutput
    /\ Len(items) < MaxItems
    /\ \E it \in ItemSet : items' = Append(items, it)
    /\ UNCHANGED <<shipping, totDraft, totNorm, draftDict, totAgain, outsideTotals>>

\* the caller sets the shipping of the draft's totals block
SetShipping ==
    /\ NoOutput
    /\ shipping = 0
    /\ \E s \in ShippingSet \ {0} : shipping' = s
    /\ UNCHANGED <<items, totDraft, totNorm, draftDict, totAgain, outsideTotals>>

\* compute_totals(draft): DocDraft._compute_totals, DocumentBundle._recompute
ComputeTotals ==
    /\ totDraft = Absent
    /\ totDraft' = compute_totals(items, shipping)
    /\ UNCHANGED <<items, shipping, totNorm, draftDict, totAgain, outsideTotals>>

\* _calculate_totals(items, shipping): the normaliser's totals
CalculateTotals ==
    /\ totNorm = Absent
    /\ totNorm' = _calculate_totals(items, shipping)
    /\ UNCHANGED <<items, shipping, totDraft, draftDict, totAgain, outsideTotals>>

\* recompute_draft_totals(draft): POST /compute/totals and the dict repair
RecomputeDraftTotals ==
    /\ draftDict = Absent
    /\ draftDict' = recompute_draft_totals(items, "INR")
    /\ UNCHANGED <<items, shipping, totDraft, totNorm, totAgain, outsideTotals>>

\* DocumentBundle._recompute: compute_totals(draft) on a draft that carries the
\* totals DocDraft._compute_totals gave it
ComputeTotalsAgain ==
    /\ totDraft # Absent
    /\ totAgain = Absent
    /\ totAgain' = [of |-> "compute_totals",
                    out |-> compute_totals(items, totDraft.shipping)]
    /\ UNCHANGED <<items, shipping, totDraft, totNorm, draftDict, outsideTotals>>

\* _calculate_totals on the items and the shipping of the totals it returned
CalculateTotalsAgain ==
    /\ totNorm # Absent
    /\ totAgain = Absent
    /\ totAgain' = [of |-> "_calculate_totals",
                    out |-> _calculate_totals(items, totNorm.shipping)]
    /\ UNCHANGED <<items, shipping, totDraft, totNorm, draftDict, outsideTotals>>

\* recompute_draft_totals on the draft it returned
RecomputeDraftTotalsAgain ==
    /\ draftDict # Absent
    /\ totAgain = Absent
    /\ totAgain' = [of |-> "recompute_draft_totals",
                    out |-> recompute_draft_totals(draftDict.items, draftDict.totals.currency)]
    /\ UNCHANGED <<items, shipping, totDraft, totNorm, draftDict, outsideTotals>>

TotalsNext ==
    \/ AddItem \/ SetShipping \/ ComputeTotals \/ CalculateTotals \/ RecomputeDraftTotals
    \/ ComputeTotalsAgain \/ CalculateTotalsAgain \/ RecomputeDraftTotalsAgain

SpecTotals == Init /\ [][TotalsNext]_vars

(* ---------------------------------------------------------------------- *)
(* Properties of the totals engine                                        *)
(* ---------------------------------------------------------------------- *)

\* the Totals invariant: the parts and the round-off add up to the grand
\* total to the paisa, and the grand total is a whole number of rupees
TotalsBalanced(t) ==
    /\ Round2(t.subtotal - t.discount_total + t.tax_total + t.shipping + t.round_off) = t.grand_total
    /\ t.grand_total % Rupee = 0

\* C1: every Totals produced by compute_totals(draft), by _calculate_totals
\* and by the dict compute_totals of recompute_draft_totals satisfies
\* round(subtotal - discount_total + tax_total + shipping + round_off, 2)
\* = grand_total, with grand_total a whole number of rupees.
C1_TotalsInvariant ==
    /\ totDraft # Absent => TotalsBalanced(totDraft)
    /\ totNorm # Absent => TotalsBalanced(totNorm)
    /\ draftDict # Absent => TotalsBalanced(draftDict.totals)

\* the Totals the data model describes: gross subtotal, the line discounts
\* (capped at the line's gross value) and the line taxes summed, the
\* discount subtracted once, the result rounded to the nearest rupee
TotalsAsSpecified(t, its) ==
    /\ t.subtotal = Round2(SumSeq([i \in 1..Len(its) |-> Gross(its[i])]))
    /\ t.discount_total = Round2(SumSeq([i \in 1..Len(its) |-> CappedDiscount(its[i])]))
    /\ t.tax_total = Round2(SumSeq([i \in 1..Len(its) |-> NetTax(its[i])]))
    /\ t.grand_total = Round0(t.subtotal - t.discount_total + t.tax_total + t.shipping)

\* C2: in every computed Totals subtotal is the sum of the gross line values
\* qty x unit_price, discount_total the sum of the line discounts, tax_total
\* the sum of the line taxes, and grand_total is subtotal - discount_total +
\* tax_total + shipping rounded to the nearest integer, so that each line's
\* discount is subtracted exactly once.
C2_GrossSubtotalDiscountOnce ==
    /\ totDraft # Absent => TotalsAsSpecified(totDraft, items)
    /\ totNorm # Absent => TotalsAsSpecified(totNorm, items)

\* what of C1 and C2 holds per implementation
C1_DraftBalanced == totDraft # Absent => TotalsBalanced(totDraft)
C1_NormBalanced == totNorm # Absent => TotalsBalanced(totNorm)
C1_DictBalanced == draftDict # Absent => TotalsBalanced(draftDict.totals)
C2_DraftAsSpecified == totDraft # Absent => TotalsAsSpecified(totDraft, items)
C2_NormAsSpecified == totNorm # Absent => TotalsAsSpecified(totNorm, items)

\* C11: computing totals again on a draft whose totals were already computed
\* gives the same output: compute_totals and _calculate_totals return the
\* totals they returned before, recompute_draft_totals leaves the items and
\* the totals of the draft as they were.
C11_TotalsIdempotent ==
    totAgain # Absent =>
        /\ totAgain.of = "compute_totals" => totAgain.out = totDraft
        /\ totAgain.of = "_calculate_totals" => totAgain.out = totNorm
        /\ totAgain.of = "recompute_draft_totals" => totAgain.out = draftDict

\* a draft of two lines, one discounted, with a shipping of 49.50 and a
\* non-zero round-off, has gone through compute_totals twice
C11_Witness ==
    /\ totAgain # Absent
    /\ totAgain.of = "compute_totals"
    /\ Len(items) = 2
    /\ items[1].discount > 0
    /\ shipping = 4950 * Paise
    /\ totDraft.round_off # 0
    /\ totAgain.out = totDraft

\* grand_total is not negative and round_off lies within half a rupee
WithinRange(t) ==
    /\ t.grand_total >= 0
    /\ t.round_off >= 0 - 50 * Paise /\ t.round_off <= 50 * Paise

\* C28: for line items with non-negative qty, unit_price, discount and
\* tax_rate, a discount above the line's gross value included, and a
\* non-negative shipping, the computed grand_total is never negative and
\* round_off lies between -0.50 and +0.50
C28_GrandTotalNotNegative ==
    /\ totDraft # Absent => WithinRange(totDraft)
    /\ totNorm # Absent => WithinRange(totNorm)
    /\ draftDict # Absent => WithinRange(draftDict.totals)

(* ---------------------------------------------------------------------- *)
(* Amounts put into words: whole amounts up to MaxCrores crore, and the   *)
(* grand totals of the three totals computations                          *)
(* ---------------------------------------------------------------------- *)

MaxCrores == 100

CroreSet == {0, 1, 12, MaxCrores}
LakhSet == {0, 1, 23, 99}
ThousandSet == {0, 1, 59, 123 % 100}
BelowThousandSet == {0, 5, 13, 40, 100, 999}

\* whole amounts of rupees
WholeAmountSet ==
    {c * Crore + l * Lakh + t * Thousand + h :
         c \in CroreSet, l \in LakhSet, t \in ThousandSet, h \in BelowThousandSet}

\* number_to_words_indian(amount) of app/services/totals.py on a whole amount:
\* rupees = int(amount) is the amount and paise is 0
NumberToWordsIndian ==
    /\ inWords = Absent
    /\ \E amount \in WholeAmountSet :
           inWords' = [of |-> "number_to_words_indian", service |-> "app", amount |-> amount,
                       out |-> IF amount = 0 THEN <<"Zero", "Rupees", "Only">>
                               ELSE WordsOfRupees(amount, 0)]
    /\ UNCHANGED outsideWords

\* number_to_words_indian(num) of ai-backend/app/services/totals.py on a
\* whole amount
NumberToWordsIndianDict ==
    /\ inWords = Absent
    /\ \E num \in WholeAmountSet :
           inWords' = [of |-> "number_to_words_indian", service |-> "ai-backend",
                       amount |-> num,
                       out |-> IF num = 0 THEN <<"Zero", "Rupees", "Only">>
                               ELSE WordsOfRupeesDict(num, 0)]
    /\ UNCHANGED outsideWords

\* a totals computation and the amount in words it returns: compute_totals
\* of app, _calculate_totals of the normaliser, compute_totals of ai-backend
TotalsInWords ==
    /\ inWords = Absent
    /\ \E its \in {<<>>} \cup {<<it>> : it \in ItemSet}, ship \in ShippingSet :
           \E totals \in {[of |-> "compute_totals"] @@ compute_totals(its, ship),
                           [of |-> "_calculate_totals"] @@ _calculate_totals(its, ship),
                           [of |-> "compute_totals_dict"] @@ compute_totals_dict(
                               [i \in 1..Len(its) |-> compute_line_totals(its[i])], "INR")} :
               inWords' = [of |-> totals.of, grand_total |-> totals.grand_total,
                           out |-> totals.amount_in_words]
    /\ UNCHANGED outsideWords

WordsNext == NumberToWordsIndian \/ NumberToWordsIndianDict \/ TotalsInWords

SpecWords == Init /\ [][WordsNext]_vars

\* the words of 1..999
WordsBelowThousand(n) ==
    LET small == <<"One", "Two", "Three", "Four", "Five", "Six", "Seven", "Eight", "Nine",
                   "Ten", "Eleven", "Twelve", "Thirteen", "Fourteen", "Fifteen", "Sixteen",
                   "Seventeen", "Eighteen", "Nineteen">>
        decades == <<"Twenty", "Thirty", "Forty", "Fifty", "Sixty", "Seventy", "Eighty", "Ninety">>
        below_hundred(m) ==
            IF m = 0 THEN <<>>
            ELSE IF m < 20 THEN <<small[m]>>
            ELSE <<decades[m \div 10 - 1]>> \o (IF m % 10 = 0 THEN <<>> ELSE <<small[m % 10]>>)
    IN  (IF n >= 100 THEN <<small[n \div 100], "Hundred">> ELSE <<>>) \o below_hundred(n % 100)

\* the Indian-grouped wording of a whole amount: the crore, lakh, thousand
\* and hundred groups in that order, each present exactly when its value is
\* not zero, and then "Rupees Only"
IndianWording(amount) ==
    LET group(value, label) ==
            IF value = 0 THEN <<>> ELSE WordsBelowThousand(value) \o <<label>>
    IN  IF amount = 0 THEN <<"Zero", "Rupees", "Only">>
        ELSE group(amount \div Crore, "Crore")
                 \o group((amount % Crore) \div Lakh, "Lakh")
                 \o group((amount % Lakh) \div Thousand, "Thousand")
                 \o WordsBelowThousand(amount % Thousand)
                 \o <<"Rupees", "Only">>

\* C18: for every whole amount from 0 up into the crores number_to_words_indian
\* returns, without an error, the Indian-grouped wording (59000 gives "Fifty
\* Nine Thousand Rupees Only", 123000 "One Lakh Twenty Three Thousand Rupees
\* Only"), and the amount_in_words of every computed Totals is
\* number_to_words_indian(grand_total)
C18_AmountInWords ==
    /\ IndianWording(59000) = <<"Fifty", "Nine", "Thousand", "Rupees", "Only">>
    /\ IndianWording(123000) = <<"One", "Lakh", "Twenty", "Three", "Thousand", "Rupees", "Only">>
    /\ (inWords # Absent /\ inWords.of = "number_to_words_indian") =>
           /\ inWords.out # IndexError
           /\ inWords.out = IndianWording(inWords.amount)
    /\ (inWords # Absent /\ inWords.of \in {"compute_totals", "_calculate_totals"}) =>
           inWords.out = number_to_words_indian(inWords.grand_total)
    /\ (inWords # Absent /\ inWords.of = "compute_totals_dict") =>
           inWords.out = number_to_words_indian_dict(inWords.grand_total)

(* ---------------------------------------------------------------------- *)
(* JSON values of a raw model payload.  A dict has the keys its record    *)
(* lists; a key the payload does not carry holds Missing, which is what   *)
(* dict.get returns None for.  NumStr(n) is a string float() reads as n,  *)
(* DateStr(d) a string date.fromisoformat reads as day d, Str any other   *)
(* string.                                                                *)
(* ---------------------------------------------------------------------- *)

Missing == [kind |-> "missing"]
Null == [kind |-> "null"]
Num(n) == [kind |-> "num", v |-> n]
NumStr(n) == [kind |-> "numstr", v |-> n]
DateStr(d) == [kind |-> "date", v |-> d]
Str(s) == [kind |-> "str", v |-> s]
\* a number with a fractional part, held in tenths
Tenths(t) == [kind |-> "float", v |-> t]
List(xs) == [kind |-> "list", v |-> xs]
Dict(r) == [kind |-> "dict", v |-> r]

IsNone(x) == x.kind \in {"missing", "null"}
IsDict(x) == x.kind = "dict"
IsList(x) == x.kind = "list"
IsString(x) == x.kind \in {"str", "numstr", "date"}

\* d.get(key) on a dict
Get(d, key) == d.v[key]

\* a dict with no key at all
EmptyDict(d) == \A k \in DOMAIN d.v : d.v[k] = Missing

\* the truth value Python gives a JSON value
Truthy(x) ==
    CASE x.kind \in {"missing", "null"} -> FALSE
      [] x.kind \in {"num", "float"} -> x.v # 0
      [] x.kind = "str" -> x.v # <<>>
      [] x.kind \in {"numstr", "date"} -> TRUE
      [] x.kind = "list" -> x.v # <<>>
      [] x.kind = "dict" -> ~EmptyDict(x)

\* a or b
OrElse(a, b) == IF Truthy(a) THEN a ELSE b

\* _to_float(value, default) of output_processing.py
_to_float(value, default) ==
    IF IsNone(value) THEN default
    ELSE IF value.kind \in {"num", "numstr"} THEN value.v
    ELSE default

\* the outcome of a call: the value it returned, or the exception it raised
Ok(v) == [ok |-> TRUE, v |-> v]
Raise(e) == [ok |-> FALSE, err |-> e]

\* a string whose characters do not matter
Text(s) == Str(<<s>>)

\* a dict that carries the keys of r and none of the other keys
Obj(keys, r) == Dict(r @@ [k \in keys |-> Missing])

\* Optional[str] of a pydantic model: None or a string
IsOptionalStr(x) == IsNone(x) \/ IsString(x)

\* the float a pydantic "before" validator _ensure_number / _coerce_float gives
CoerceFloat(value) == _to_float(value, 0)

(* ---------------------------------------------------------------------- *)
(* UPI deep link.  A text is here the sequence of its characters.         *)
(* ---------------------------------------------------------------------- *)

Letters == {"a", "b", "c", "h", "x", "y", "A", "B", "I", "N", "R", "V"}
Digits == <<"0", "1", "2", "3", "4", "5", "6", "7", "8", "9">>
DigitSet == {Digits[i] : i \in 1..Len(Digits)}

\* the characters urllib.parse.quote leaves as they are (safe = "/")
SafeChars == Letters \cup DigitSet \cup {"_", ".", "-", "~", "/"}

\* the two hexadecimal digits of a character's code
HexCode(c) ==
    CASE c = "@" -> <<"4", "0">>
      [] c = " " -> <<"2", "0">>
      [] c = "%" -> <<"2", "5">>
      [] c = "&" -> <<"2", "6">>
      [] c = "=" -> <<"3", "D">>
      [] c = "?" -> <<"3", "F">>
      [] c = ":" -> <<"3", "A">>

\* quote that leaves every character as it is
quote_identity(text) == text

\* urllib.parse.quote(text)
RECURSIVE quote(_)
quote(text) ==
    IF text = <<>> THEN <<>>
    ELSE (IF Head(text) \in SafeChars THEN <<Head(text)>> ELSE <<"%">> \o HexCode(Head(text)))
         \o quote(Tail(text))

\* the decimal digits of a natural number
RECURSIVE DigitsOf(_)
DigitsOf(n) == IF n < 10 THEN <<Digits[n + 1]>> ELSE DigitsOf(n \div 10) \o <<Digits[(n % 10) + 1]>>

\* f"{amount:.2f}" for an amount in units of 10^-5 rupee
Format2f(amount) ==
    LET p == RoundHalfEven(IF amount < 0 THEN 0 - amount ELSE amount, Paise)
    IN  (IF amount < 0 THEN <<"-">> ELSE <<>>)
        \o DigitsOf(p \div 100) \o <<".">>
        \o <<Digits[((p % 100) \div 10) + 1], Digits[(p % 10) + 1]>>

RECURSIVE JoinAmp(_)
\* "&".join(parts)
JoinAmp(parts) ==
    IF Len(parts) = 1 THEN parts[1] ELSE parts[1] \o <<"&">> \o JoinAmp(Tail(parts))

\* an optional argument that was not passed
NoArg == <<"None">>
\* Python's truth value of an optional text
TextGiven(t) == t # NoArg /\ t # <<>>

\* generate_upi_deeplink(upi_id, payee_name, amount, currency, note, txn_ref, callback_url)
generate_upi_deeplink(upi_id, payee_name, amount, currency, note, txn_ref, callback_url) ==
    LET p1 == << <<"u", "p", "i", ":", "/", "/", "p", "a", "y", "?", "p", "a", "=">> \o quote(upi_id) >>
        p2 == Append(p1, <<"p", "n", "=">> \o quote(payee_name))
        p3 == IF ~IsNone(amount) THEN Append(p2, <<"a", "m", "=">> \o Format2f(amount.v)) ELSE p2
        p4 == Append(p3, <<"c", "u", "=">> \o currency)
        p5 == IF TextGiven(note) THEN Append(p4, <<"t", "n", "=">> \o quote(note)) ELSE p4
        p6 == IF TextGiven(txn_ref) THEN Append(p5, <<"t", "r", "=">> \o quote(txn_ref)) ELSE p5
        p7 == IF TextGiven(callback_url) THEN Append(p6, <<"u", "r", "l", "=">> \o quote(callback_url)) ELSE p6
    IN  JoinAmp(p7)

UpiIdSet == {<<"a", "@", "b">>}
PayeeSet == {<<"A", " ", "B">>, <<"A", "&", "B">>}
AmountSet == {Null, Num(0), Num(43660 * Paise), Num(125 * Paise), Num(126 * (Paise \div 10))}
CurrencySet == {<<"I", "N", "R">>}
NoteSet == {NoArg, <<>>, <<"5", "0", "%">>}
TxnRefSet == {NoArg, <<"I", "N", "V", "-", "1">>}
CallbackSet == {NoArg, <<>>, <<"h", ":", "/", "/", "x", "?", "y", "=", "1">>}

UPIDeeplinkRequest ==
    [upi_id : UpiIdSet, payee_name : PayeeSet, amount : AmountSet, currency : CurrencySet,
     note : NoteSet, txn_ref : TxnRefSet, callback_url : CallbackSet]

\* POST /upi/deeplink arrives
UpiRequest ==
    /\ upiReq = Absent
    /\ \E r \in UPIDeeplinkRequest : upiReq' = r
    /\ UNCHANGED <<upiOut, outsideUpi>>

\* create_upi_deeplink: the deep link and the QR payload
CreateUpiDeeplink ==
    /\ upiReq # Absent
    /\ upiOut = Absent
    /\ LET link == generate_upi_deeplink(upiReq.upi_id, upiReq.payee_name, upiReq.amount,
                                         upiReq.currency, upiReq.note, upiReq.txn_ref,
                                         upiReq.callback_url)
       IN  upiOut' = [deeplink |-> link, qr_payload |-> link]
    /\ UNCHANGED <<upiReq, outsideUpi>>

UpiNext == UpiRequest \/ CreateUpiDeeplink

SpecUpi == Init /\ [][UpiNext]_vars

(* ---------------------------------------------------------------------- *)
(* Properties of the UPI deep link                                        *)
(* ---------------------------------------------------------------------- *)

StartsWith(t, pre) == Len(t) >= Len(pre) /\ SubSeq(t, 1, Len(pre)) = pre

\* the position of the first sep in t, 0 when there is none
RECURSIVE IndexOf(_, _, _)
IndexOf(t, sep, i) ==
    IF i > Len(t) THEN 0 ELSE IF t[i] = sep THEN i ELSE IndexOf(t, sep, i + 1)

\* the pieces of t between the occurrences of sep
RECURSIVE SplitOn(_, _)
SplitOn(t, sep) ==
    LET i == IndexOf(t, sep, 1)
    IN  IF i = 0 THEN <<t>>
        ELSE <<SubSeq(t, 1, i - 1)>> \o SplitOn(SubSeq(t, i + 1, Len(t)), sep)

KeyOf(part) ==
    LET i == IndexOf(part, "=", 1) IN IF i = 0 THEN part ELSE SubSeq(part, 1, i - 1)
ValueOf(part) ==
    LET i == IndexOf(part, "=", 1) IN IF i = 0 THEN <<>> ELSE SubSeq(part, i + 1, Len(part))

\* the character a %XX escape stands for
CharOfHex(h) ==
    CASE h = <<"4", "0">> -> "@"
      [] h = <<"2", "0">> -> " "
      [] h = <<"2", "5">> -> "%"
      [] h = <<"2", "6">> -> "&"
      [] h = <<"3", "D">> -> "="
      [] h = <<"3", "F">> -> "?"
      [] h = <<"3", "A">> -> ":"
      [] OTHER -> "?bad"

\* percent-decoding
RECURSIVE Unquote(_)
Unquote(t) ==
    IF t = <<>> THEN <<>>
    ELSE IF Head(t) = "%" /\ Len(t) >= 3
         THEN <<CharOfHex(SubSeq(t, 2, 3))>> \o Unquote(SubSeq(t, 4, Len(t)))
         ELSE <<Head(t)>> \o Unquote(Tail(t))

\* a percent-encoding of text: only unreserved characters and escapes, and
\* decoding gives text back
HexDigitSet == DigitSet \cup {"A", "B", "C", "D", "E", "F"}

\* only unreserved characters and %XX escapes
RECURSIVE Escaped(_)
Escaped(t) ==
    IF t = <<>> THEN TRUE
    ELSE IF Head(t) = "%"
         THEN Len(t) >= 3 /\ t[2] \in HexDigitSet /\ t[3] \in HexDigitSet
              /\ Escaped(SubSeq(t, 4, Len(t)))
         ELSE Head(t) \in SafeChars /\ Escaped(Tail(t))

PercentEncodes(value, text) == Escaped(value) /\ Unquote(value) = text

\* digits, a point, exactly two digits
TwoDecimals(value) ==
    /\ Len(value) >= 4
    /\ value[Len(value) - 2] = "."
    /\ \A i \in 1..Len(value) : i # Len(value) - 2 => value[i] \in DigitSet

Scheme == <<"u", "p", "i", ":", "/", "/", "p", "a", "y", "?">>
K_pa == <<"p", "a">>
K_pn == <<"p", "n">>
K_am == <<"a", "m">>
K_cu == <<"c", "u">>
K_tn == <<"t", "n">>
K_tr == <<"t", "r">>
K_url == <<"u", "r", "l">>

\* the key=value parameters of a deep link, in the order they appear
ParamsOf(link) == SplitOn(SubSeq(link, Len(Scheme) + 1, Len(link)), "&")

\* the value of the first parameter with the key
ParamValue(link, key) ==
    LET ps == ParamsOf(link)
        i == CHOOSE j \in 1..Len(ps) : KeyOf(ps[j]) = key /\ \A k \in 1..(j - 1) : KeyOf(ps[k]) # key
    IN  ValueOf(ps[i])

\* the deep link of a request, given which optional parameters it should carry
DeeplinkWellFormed(req, link, hasNote, hasRef, hasUrl) ==
    LET keys == [i \in 1..Len(ParamsOf(link)) |-> KeyOf(ParamsOf(link)[i])]
        expected == <<K_pa, K_pn>>
                    \o (IF req.amount # Null THEN <<K_am>> ELSE <<>>)
                    \o <<K_cu>>
                    \o (IF hasNote THEN <<K_tn>> ELSE <<>>)
                    \o (IF hasRef THEN <<K_tr>> ELSE <<>>)
                    \o (IF hasUrl THEN <<K_url>> ELSE <<>>)
    IN  /\ StartsWith(link, Scheme \o K_pa \o <<"=">>)
        /\ keys = expected
        /\ PercentEncodes(ParamValue(link, K_pa), req.upi_id)
        /\ PercentEncodes(ParamValue(link, K_pn), req.payee_name)
        /\ req.amount # Null => TwoDecimals(ParamValue(link, K_am))
        /\ hasNote => PercentEncodes(ParamValue(link, K_tn), req.note)
        /\ hasRef => PercentEncodes(ParamValue(link, K_tr), req.txn_ref)
        /\ hasUrl => PercentEncodes(ParamValue(link, K_url), req.callback_url)

\* an optional text was passed (it is not None)
Passed(t) == t # NoArg

\* C10 as claimed: the link starts with upi://pay?pa=, its parameters are
\* pa, pn, am, cu, tn, tr, url in that order, with pa, pn, cu always there, am
\* exactly when an amount is supplied (two decimals), tn, tr, url exactly when
\* note, txn_ref, callback_url are supplied, and pa, pn, tn, tr, url
\* percent-encoded.
C10_AsClaimed ==
    upiOut # Absent => DeeplinkWellFormed(upiReq, upiOut.deeplink, Passed(upiReq.note),
                                     Passed(upiReq.txn_ref), Passed(upiReq.callback_url))

\* C10 amended: as claimed, but tn, tr and url are present exactly when
\* note, txn_ref and callback_url are supplied and not the empty string.
C10_DeeplinkFormat ==
    upiOut # Absent => DeeplinkWellFormed(upiReq, upiOut.deeplink, TextGiven(upiReq.note),
                                     TextGiven(upiReq.txn_ref), TextGiven(upiReq.callback_url))

\* a request with every optional argument given, answered
C10_Witness ==
    /\ upiOut # Absent
    /\ upiReq.amount = Num(43660 * Paise)
    /\ TextGiven(upiReq.note) /\ TextGiven(upiReq.txn_ref) /\ TextGiven(upiReq.callback_url)
    /\ ParamValue(upiOut.deeplink, K_pa) = <<"a", "%", "4", "0", "b">>
    /\ ParamValue(upiOut.deeplink, K_am) = <<"4", "3", "6", ".", "6", "0">>

(* ---------------------------------------------------------------------- *)
(* The generation request (models/generation.py, models/inputs.py)        *)
(* ---------------------------------------------------------------------- *)

SellerName == <<"A", " ", "B">>
BuyerName == <<"C", "o">>
SellerUpiId == <<"a", "@", "b">>
Requirement == <<"x", " ", "y">>
HintDocNo == <<"I", "N", "V", "-", "1">>
INR == <<"I", "N", "R">>

\* date.today(), and the dates the payloads and the hints carry, as day numbers
Today == 100
RawIssueDate == Today - 30
HintIssueDate == Today - 3
HintDueDate == Today + 10
HintValidTill == Today + 20

ItemKeys == {"description", "qty", "unit_price", "unit", "discount", "tax_rate", "hsn_sac"}

\* a quantity, held in tenths
Qty(n) == n * 10

\* HintItem.model_dump(exclude_none=True) of the one hinted line
HintItemDump ==
    Obj(ItemKeys, [description |-> Text("Hinted line"), qty |-> Num(Qty(2)),
                   unit_price |-> Num(500 * Rupee), tax_rate |-> Num(18)])

\* GenerationHints with every hint given
FullHints ==
    [doc_meta |-> [doc_no |-> Str(HintDocNo), po_no |-> Null, ref_no |-> Null],
     dates |-> [issue_date |-> DateStr(HintIssueDate), due_date |-> DateStr(HintDueDate),
                valid_till |-> DateStr(HintValidTill)],
     items |-> List(<<HintItemDump>>),
     terms |-> [title |-> Null, bullets |-> <<Text("Net 30")>>],
     payment |-> [mode |-> Text("UPI"), instructions |-> Text("Pay by UPI")]]

SellerBank == [upi_id |-> Str(SellerUpiId)]
SellerTaxPrefs == [place_of_supply |-> Text("KA")]

\* GenerationRequest: seller is the "from" party, buyer the "to" party
GenerationRequest(bank, tax_prefs, place_of_supply, hints) ==
    [seller |-> [name |-> Str(SellerName), notes |-> Null, bank |-> bank,
                 tax_prefs |-> tax_prefs],
     buyer |-> [name |-> Str(BuyerName), place_of_supply |-> place_of_supply],
     currency |-> Str(INR),
     locale |-> Text("en-IN"),
     requirement |-> Str(Requirement),
     hints |-> hints]

\* the request of the endpoint tests, and requests with less and with more
RequestSet ==
    {GenerationRequest(SellerBank, SellerTaxPrefs, Text("KA"), Null),
     GenerationRequest(SellerBank, SellerTaxPrefs, Text("MH"), FullHints),
     [GenerationRequest(SellerBank, Null, Text("KA"), Null)
          EXCEPT !.requirement = Str(<<" ">> \o Requirement \o <<" ">>)],
     GenerationRequest(Null, SellerTaxPrefs, Null, FullHints),
     GenerationRequest(Null, Null, Text("MH"), FullHints),
     GenerationRequest(Null, Null, Null, Null)}

\* request.hints.<field> if request.hints and request.hints.<field> else None
HintOf(req, field) ==
    IF req.hints = Null THEN Null ELSE req.hints[field]

(* ---------------------------------------------------------------------- *)
(* The raw payload of the model                                           *)
(* ---------------------------------------------------------------------- *)

PayloadKeys == {"doc_type", "currency", "locale", "seller", "buyer", "doc_meta", "dates",
                "items", "totals", "terms", "notes", "payment", "gst"}
PartyKeys == {"name", "address", "email", "phone", "gstin", "pan"}
DocMetaKeys == {"doc_no", "ref_no", "po_no"}
DatesKeys == {"issue_date", "valid_till", "due_date"}
TotalsKeys == {"subtotal", "discount_total", "tax_total", "shipping", "round_off",
               "grand_total", "amount_in_words"}
TermsKeys == {"title", "bullets"}
PaymentKeys == {"mode", "upi_deeplink", "instructions"}
GstKeys == {"mode", "cgst", "sgst", "igst", "place_of_supply"}

\* the payload of the test provider (tests/test_generate_endpoints.py), its
\* amounts a hundredth of the test's
StubItem ==
    Obj(ItemKeys, [description |-> Text("Website redesign"), qty |-> Num(Qty(2)),
                   unit_price |-> Num(500 * Rupee), discount |-> Num(10 * Rupee),
                   tax_rate |-> Num(18)])
StubTotals ==
    Obj(TotalsKeys, [subtotal |-> Num(0), discount_total |-> Num(0), tax_total |-> Num(0),
                     shipping |-> Num(0), round_off |-> Num(0), grand_total |-> Num(0)])
StubPayload ==
    Obj(PayloadKeys,
        [doc_type |-> Text("QUOTATION"),
         seller |-> Obj(PartyKeys, [name |-> Text("Acme Pvt Ltd")]),
         buyer |-> Obj(PartyKeys, [name |-> Text("Client Co")]),
         currency |-> Str(INR),
         locale |-> Text("en-IN"),
         dates |-> Obj(DatesKeys, [issue_date |-> DateStr(RawIssueDate)]),
         items |-> List(<<StubItem>>),
         totals |-> StubTotals,
         terms |-> Obj(TermsKeys, [bullets |-> List(<<Text("Payment within 15 days")>>)]),
         payment |-> Obj(PaymentKeys, [mode |-> Text("UPI")])])

\* {}
EmptyPayload == Obj(PayloadKeys, <<>>)

(* ---------------------------------------------------------------------- *)
(* Output normalisation (ai-backend/app/services/output_processing.py)    *)
(* ---------------------------------------------------------------------- *)

ValidationError == "ValidationError"
AttributeError == "AttributeError"

\* raw if isinstance(raw, dict) else {}
DictOr(raw, keys) == IF IsDict(raw) THEN raw ELSE Obj(keys, <<>>)

\* _ensure_party(raw, fallback): the payload's fields, else the request's
_ensure_party(raw, fallback) ==
    LET payload == DictOr(raw, PartyKeys)
    IN  [name |-> OrElse(Get(payload, "name"), fallback.name),
         address |-> OrElse(Get(payload, "address"), Null),
         email |-> OrElse(Get(payload, "email"), Null),
         phone |-> OrElse(Get(payload, "phone"), Null),
         gstin |-> OrElse(Get(payload, "gstin"), Null),
         pan |-> OrElse(Get(payload, "pan"), Null)]

\* Party.model_validate
PartyValid(party) ==
    /\ IsString(party.name)
    /\ \A k \in PartyKeys \ {"name"} : IsOptionalStr(party[k])

_DEFAULT_TERMS ==
    <<Text("Prices exclusive of applicable taxes unless stated otherwise"),
      Text("Payment terms as per agreement")>>

\* _ensure_terms(raw, hints): Terms(title=title, bullets=bullets)
_ensure_terms(raw, hints) ==
    LET source == DictOr(raw, TermsKeys)
        title == OrElse(Get(source, "title"),
                        IF hints # Null /\ Truthy(hints.title) THEN hints.title
                        ELSE Text("Terms & Conditions"))
        given == Get(source, "bullets")
        bullets == IF IsList(given) /\ given.v # <<>> THEN given.v
                   ELSE IF hints # Null /\ hints.bullets # <<>> THEN hints.bullets
                   ELSE _DEFAULT_TERMS
    IN  IF IsString(title) /\ \A i \in 1..Len(bullets) : IsString(bullets[i])
        THEN Ok([title |-> title, bullets |-> bullets])
        ELSE Raise(ValidationError)

\* the item _ensure_items makes of one seed entry
EnsuredItem(entry, request) ==
    LET q == Max(_to_float(Get(entry, "qty"), Qty(1)), 0)
    IN  [description |-> OrElse(Get(entry, "description"), request.requirement),
         qty |-> IF q = 0 THEN Qty(1) ELSE q,
         unit_price |-> Max(_to_float(Get(entry, "unit_price"), 0), 0),
         unit |-> OrElse(Get(entry, "unit"), Text("pcs")),
         discount |-> Max(_to_float(Get(entry, "discount"), 0), 0),
         tax_rate |-> Max(_to_float(Get(entry, "tax_rate"), 0), 0),
         hsn_sac |-> OrElse(Get(entry, "hsn_sac"), Null)]

\* Item(...): description and unit are strings, hsn_sac an optional string
ItemValid(item) ==
    IsString(item.description) /\ IsString(item.unit) /\ IsOptionalStr(item.hsn_sac)

\* text.strip(): the text without its leading and trailing blanks
Strip(text) ==
    LET inked == {i \in 1..Len(text) : text[i] # " "}
    IN  IF inked = {} THEN <<>>
        ELSE SubSeq(text, CHOOSE i \in inked : \A j \in inked : i <= j,
                          CHOOSE i \in inked : \A j \in inked : i >= j)

\* the line _ensure_items falls back on when nothing else is given
DefaultSeed(request) ==
    Obj(ItemKeys, [description |-> IF Strip(request.requirement.v) # <<>>
                                   THEN Str(Strip(request.requirement.v))
                                   ELSE Text("Professional services"),
                   qty |-> Num(Qty(1)),
                   unit_price |-> Num(0), unit |-> Text("pcs"), discount |-> Num(0),
                   tax_rate |-> Num(0)])

\* _ensure_items with the hinted items tried before the payload's
_ensure_items_hints_first(raw_items, hints, request) ==
    LET given == IF IsList(raw_items)
                 THEN [i \in 1..Len(raw_items.v) |-> DictOr(raw_items.v[i], ItemKeys)]
                 ELSE <<>>
        hinted == IF Truthy(hints) THEN hints.v ELSE given
        seed == IF hinted = <<>> THEN <<DefaultSeed(request)>> ELSE hinted
        its == [i \in 1..Len(seed) |-> EnsuredItem(seed[i], request)]
    IN  IF \A i \in 1..Len(its) : ItemValid(its[i]) THEN Ok(its) ELSE Raise(ValidationError)

\* _ensure_items(raw_items, hints, request)
_ensure_items(raw_items, hints, request) ==
    LET given == IF IsList(raw_items)
                 THEN [i \in 1..Len(raw_items.v) |-> DictOr(raw_items.v[i], ItemKeys)]
                 ELSE <<>>
        hinted == IF given = <<>> /\ Truthy(hints) THEN hints.v ELSE given
        seed == IF hinted = <<>> THEN <<DefaultSeed(request)>> ELSE hinted
        its == [i \in 1..Len(seed) |-> EnsuredItem(seed[i], request)]
    IN  IF \A i \in 1..Len(its) : ItemValid(its[i]) THEN Ok(its) ELSE Raise(ValidationError)

\* date.fromisoformat(str(value)) succeeds
IsIsoDate(value) == value.kind = "date"

\* _resolve_issue_date, _resolve_valid_till, _resolve_due_date: the payload's
\* date when it parses, else the hinted one, else the default
ResolveDate(raw_dates, key, hinted, default) ==
    IF IsDict(raw_dates) /\ Truthy(Get(raw_dates, key)) /\ IsIsoDate(Get(raw_dates, key))
    THEN Get(raw_dates, key).v
    ELSE IF hinted # Null /\ Truthy(hinted[key]) THEN hinted[key].v
    ELSE default

_resolve_issue_date(request, raw_dates) ==
    ResolveDate(raw_dates, "issue_date", HintOf(request, "dates"), Today)
_resolve_valid_till(issue_date, request, raw_dates) ==
    ResolveDate(raw_dates, "valid_till", HintOf(request, "dates"), issue_date + 15)
_resolve_due_date(issue_date, request, raw_dates) ==
    ResolveDate(raw_dates, "due_date", HintOf(request, "dates"), issue_date + 7)

\* f"{prefix}-{date.today():%Y%m%d}"
DefaultDocNo(prefix) == Str(<<prefix, "-", "today">>)

\* _ensure_doc_meta(raw, request, require_doc_no, prefix): {**hints, **data}
_ensure_doc_meta(raw, request, require_doc_no, prefix) ==
    LET data == DictOr(raw, DocMetaKeys)
        hints == HintOf(request, "doc_meta")
        hinted(k) == IF hints # Null /\ hints[k] # Null THEN hints[k] ELSE Missing
        merged == [k \in DocMetaKeys |->
                      IF Get(data, k) # Missing THEN Get(data, k) ELSE hinted(k)]
    IN  IF require_doc_no /\ ~Truthy(merged["doc_no"])
        THEN [merged EXCEPT !["doc_no"] = DefaultDocNo(prefix)]
        ELSE merged

\* DocMeta.model_validate / InvoiceDocMeta.model_validate
DocMetaValid(meta, require_doc_no) ==
    /\ \A k \in DocMetaKeys : IsOptionalStr(meta[k])
    /\ require_doc_no => IsString(meta["doc_no"])

PaymentModes == {Text("UPI"), Text("BANK_TRANSFER"), Text("OTHER")}
GstModes == {Text("INTRA"), Text("INTER")}

\* _ensure_payment(raw, request): None, or Payment.model_validate(data)
_ensure_payment(raw, request) ==
    LET given == DictOr(raw, PaymentKeys)
        hints == HintOf(request, "payment")
        mode == IF hints # Null /\ Truthy(hints.mode) /\ Get(given, "mode") = Missing
                THEN hints.mode ELSE Get(given, "mode")
        instructions == IF hints # Null /\ Truthy(hints.instructions)
                           /\ ~Truthy(Get(given, "instructions"))
                        THEN hints.instructions ELSE Get(given, "instructions")
        data == [mode |-> mode, upi_deeplink |-> Get(given, "upi_deeplink"),
                 instructions |-> instructions]
    IN  IF \A k \in PaymentKeys : data[k] = Missing THEN Ok(Null)
        ELSE IF /\ (IsNone(data.mode) \/ data.mode \in PaymentModes)
                /\ IsOptionalStr(data.upi_deeplink)
                /\ IsOptionalStr(data.instructions)
        THEN Ok([k \in PaymentKeys |-> IF data[k] = Missing THEN Null ELSE data[k]])
        ELSE Raise(ValidationError)

\* _ensure_gst with the seller's tax preferences tried before the raw gst block
_ensure_gst_prefs_first(raw, request) ==
    LET tax_prefs == request.seller.tax_prefs
        data == DictOr(raw, GstKeys)
        place_of_supply ==
            IF tax_prefs # Null /\ Truthy(tax_prefs.place_of_supply)
            THEN tax_prefs.place_of_supply ELSE Get(data, "place_of_supply")
        mode == IF ~Truthy(Get(data, "mode")) /\ Truthy(place_of_supply)
                   /\ Truthy(request.buyer.place_of_supply)
                THEN (IF place_of_supply = request.buyer.place_of_supply
                      THEN Text("INTRA") ELSE Text("INTER"))
                ELSE Get(data, "mode")
        base == [mode |-> mode, cgst |-> Get(data, "cgst"), sgst |-> Get(data, "sgst"),
                 igst |-> Get(data, "igst"), place_of_supply |-> place_of_supply]
    IN  IF IsNone(raw) /\ tax_prefs = Null THEN Ok(Null)
        ELSE IF \A k \in GstKeys : IsNone(base[k]) THEN Ok(Null)
        ELSE IF (IsNone(base.mode) \/ base.mode \in GstModes)
                /\ IsOptionalStr(base.place_of_supply)
        THEN Ok([mode |-> IF IsNone(base.mode) THEN Null ELSE base.mode,
                 cgst |-> CoerceFloat(base.cgst),
                 sgst |-> CoerceFloat(base.sgst),
                 igst |-> CoerceFloat(base.igst),
                 place_of_supply |-> IF IsNone(base.place_of_supply) THEN Null
                                     ELSE base.place_of_supply])
        ELSE Raise(ValidationError)

\* _ensure_gst(raw, request): None, or GSTBreakup.model_validate(base)
_ensure_gst(raw, request) ==
    LET tax_prefs == request.seller.tax_prefs
        data == DictOr(raw, GstKeys)
        place_of_supply ==
            IF ~Truthy(Get(data, "place_of_supply")) /\ tax_prefs # Null
               /\ Truthy(tax_prefs.place_of_supply)
            THEN tax_prefs.place_of_supply ELSE Get(data, "place_of_supply")
        mode == IF ~Truthy(Get(data, "mode")) /\ Truthy(place_of_supply)
                   /\ Truthy(request.buyer.place_of_supply)
                THEN (IF place_of_supply = request.buyer.place_of_supply
                      THEN Text("INTRA") ELSE Text("INTER"))
                ELSE Get(data, "mode")
        base == [mode |-> mode, cgst |-> Get(data, "cgst"), sgst |-> Get(data, "sgst"),
                 igst |-> Get(data, "igst"), place_of_supply |-> place_of_supply]
    IN  IF IsNone(raw) /\ tax_prefs = Null THEN Ok(Null)
        ELSE IF \A k \in GstKeys : IsNone(base[k]) THEN Ok(Null)
        ELSE IF (IsNone(base.mode) \/ base.mode \in GstModes)
                /\ IsOptionalStr(base.place_of_supply)
        THEN Ok([mode |-> IF IsNone(base.mode) THEN Null ELSE base.mode,
                 cgst |-> CoerceFloat(base.cgst),
                 sgst |-> CoerceFloat(base.sgst),
                 igst |-> CoerceFloat(base.igst),
                 place_of_supply |-> IF IsNone(base.place_of_supply) THEN Null
                                     ELSE base.place_of_supply])
        ELSE Raise(ValidationError)

\* text[:n]
Take(text, n) == SubSeq(text, 1, Min(n, Len(text)))

\* _post_payment with the amount taken before shipping and rounding are in
_post_payment_on_subtotal(payment, request, totals) ==
    LET bank == request.seller.bank
        upi_id == IF bank # Null THEN bank.upi_id ELSE Null
        doc_meta == HintOf(request, "doc_meta")
        txn_ref == IF doc_meta # Null /\ doc_meta.doc_no # Null THEN doc_meta.doc_no.v
                   ELSE NoArg
    IN  IF payment = Null THEN Null
        ELSE IF payment.mode = Text("UPI") /\ Truthy(upi_id)
        THEN [payment EXCEPT !.upi_deeplink =
                 Str(generate_upi_deeplink(upi_id.v, request.seller.name.v,
                                           Num(totals.subtotal - totals.discount_total
                                                   + totals.tax_total),
                                           request.currency.v,
                                           Take(request.requirement.v, 50), txn_ref, NoArg))]
        ELSE payment

\* _post_payment(payment, request, totals): the deep link of a UPI payment
_post_payment(payment, request, totals) ==
    LET bank == request.seller.bank
        upi_id == IF bank # Null THEN bank.upi_id ELSE Null
        doc_meta == HintOf(request, "doc_meta")
        txn_ref == IF doc_meta # Null /\ doc_meta.doc_no # Null THEN doc_meta.doc_no.v
                   ELSE NoArg
    IN  IF payment = Null THEN Null
        ELSE IF payment.mode = Text("UPI") /\ Truthy(upi_id)
        THEN [payment EXCEPT !.upi_deeplink =
                 Str(generate_upi_deeplink(upi_id.v, request.seller.name.v,
                                           Num(totals.grand_total), request.currency.v,
                                           Take(request.requirement.v, 50), txn_ref, NoArg))]
        ELSE payment

\* (data.get("totals") or {}).get("shipping"): a truthy value that is not a
\* dict has no get
RawShipping(raw_totals) ==
    IF ~Truthy(raw_totals) THEN Ok(Missing)
    ELSE IF IsDict(raw_totals) THEN Ok(Get(raw_totals, "shipping"))
    ELSE Raise(AttributeError)

\* totals trusted from the payload where it gives a grand total
FinalTotalsTrusting(raw_totals, its, ship) ==
    IF IsDict(raw_totals) /\ Get(raw_totals, "grand_total").kind = "num"
    THEN [_calculate_totals(its, ship) EXCEPT !.grand_total = Get(raw_totals, "grand_total").v]
    ELSE _calculate_totals(its, ship)

\* totals = _calculate_totals(items, shipping); model.totals = totals
FinalTotals(raw_totals, its, ship) == _calculate_totals(its, ship)

\* data.get(key) or fallback
Field(data, key, fallback) == OrElse(Get(data, key), fallback)

\* build_quotation_output(raw, request)
build_quotation_output(raw, request) ==
    LET data == DictOr(raw, PayloadKeys)
        issue_date == _resolve_issue_date(request, Get(data, "dates"))
        valid_till == _resolve_valid_till(issue_date, request, Get(data, "dates"))
        its == _ensure_items(Get(data, "items"), HintOf(request, "items"), request)
        ship == RawShipping(Get(data, "totals"))
        shipping_ == _to_float(ship.v, 0)
        totals == FinalTotals(Get(data, "totals"), its.v, shipping_)
        terms == _ensure_terms(Get(data, "terms"), HintOf(request, "terms"))
        payment == _ensure_payment(Get(data, "payment"), request)
        party_seller == _ensure_party(Get(data, "seller"), request.seller)
        party_buyer == _ensure_party(Get(data, "buyer"), request.buyer)
        doc_meta == _ensure_doc_meta(Get(data, "doc_meta"), request, FALSE, "QUO")
        currency == Field(data, "currency", request.currency)
        locale == Field(data, "locale", request.locale)
        notes == Field(data, "notes", request.seller.notes)
    IN  IF ~its.ok THEN its
        ELSE IF ~ship.ok THEN ship
        ELSE IF ~terms.ok THEN terms
        ELSE IF ~payment.ok THEN payment
        ELSE IF ~(/\ IsString(currency) /\ IsString(locale)
                  /\ PartyValid(party_seller) /\ PartyValid(party_buyer)
                  /\ DocMetaValid(doc_meta, FALSE) /\ IsOptionalStr(notes))
        THEN Raise(ValidationError)
        ELSE Ok([doc_type |-> "QUOTATION",
                 currency |-> currency,
                 locale |-> locale,
                 seller |-> party_seller,
                 buyer |-> party_buyer,
                 doc_meta |-> doc_meta,
                 dates |-> [issue_date |-> issue_date, valid_till |-> valid_till],
                 items |-> its.v,
                 totals |-> totals,
                 terms |-> terms.v,
                 notes |-> notes,
                 payment |-> _post_payment(payment.v, request, totals)])

\* build_invoice_output(raw, request)
build_invoice_output(raw, request) ==
    LET data == DictOr(raw, PayloadKeys)
        issue_date == _resolve_issue_date(request, Get(data, "dates"))
        due_date == _resolve_due_date(issue_date, request, Get(data, "dates"))
        its == _ensure_items(Get(data, "items"), HintOf(request, "items"), request)
        ship == RawShipping(Get(data, "totals"))
        shipping_ == _to_float(ship.v, 0)
        totals == FinalTotals(Get(data, "totals"), its.v, shipping_)
        terms == _ensure_terms(Get(data, "terms"), HintOf(request, "terms"))
        payment == _ensure_payment(Get(data, "payment"), request)
        gst == _ensure_gst(Get(data, "gst"), request)
        party_seller == _ensure_party(Get(data, "seller"), request.seller)
        party_buyer == _ensure_party(Get(data, "buyer"), request.buyer)
        doc_meta == _ensure_doc_meta(Get(data, "doc_meta"), request, TRUE, "INV")
        currency == Field(data, "currency", request.currency)
        locale == Field(data, "locale", request.locale)
    IN  IF ~its.ok THEN its
        ELSE IF ~ship.ok THEN ship
        ELSE IF ~terms.ok THEN terms
        ELSE IF ~payment.ok THEN payment
        ELSE IF ~gst.ok THEN gst
        ELSE IF ~(/\ IsString(currency) /\ IsString(locale)
                  /\ PartyValid(party_seller) /\ PartyValid(party_buyer)
                  /\ DocMetaValid(doc_meta, TRUE))
        THEN Raise(ValidationError)
        ELSE Ok([doc_type |-> "TAX_INVOICE",
                 currency |-> currency,
                 locale |-> locale,
                 seller |-> party_seller,
                 buyer |-> party_buyer,
                 doc_meta |-> doc_meta,
                 dates |-> [issue_date |-> issue_date, due_date |-> due_date],
                 items |-> its.v,
                 totals |-> totals,
                 terms |-> terms.v,
                 payment |-> _post_payment(payment.v, request, totals),
                 gst |-> gst.v])

(* ---------------------------------------------------------------------- *)
(* The payloads a provider may return: the stub payload or {} with up to  *)
(* MaxDeviations fields replaced, null, or a value that is not a dict     *)
(* ---------------------------------------------------------------------- *)

MaxDeviations == 2

NumericStringItem ==
    Obj(ItemKeys, [description |-> Text("Licence"), qty |-> NumStr(Qty(3)),
                   unit_price |-> NumStr(280 * Rupee), discount |-> Text("none"),
                   tax_rate |-> Null])
NumberedItem ==
    Obj(ItemKeys, [description |-> Num(42), qty |-> Num(Qty(1)),
                   unit_price |-> Num(100 * Rupee)])
OverDiscountedItem ==
    Obj(ItemKeys, [description |-> Text("Support"), qty |-> Num(0),
                   unit_price |-> Num(3333 * Paise), discount |-> Num(150 * Rupee),
                   tax_rate |-> Num(18), unit |-> Text("hr")])
NegativeItem ==
    Obj(ItemKeys, [qty |-> Num(0 - Qty(2)), unit_price |-> Num(0 - 100 * Rupee),
                   discount |-> Num(0 - 10 * Rupee), tax_rate |-> Num(0 - 5)])

Deviation(key, values) == {[key |-> key, value |-> v] : v \in values}

Deviations ==
    Deviation("currency", {Num(5)})
    \cup Deviation("seller", {Text("x"), Obj(PartyKeys, [name |-> Num(7)])})
    \cup Deviation("doc_meta", {Obj(DocMetaKeys, [doc_no |-> Text("INV-7")]),
                                Obj(DocMetaKeys, [doc_no |-> Num(7)]),
                                Obj(DocMetaKeys, [doc_no |-> Null])})
    \cup Deviation("dates", {Text("x"),
                             Obj(DatesKeys, [issue_date |-> Text("soon"),
                                             due_date |-> DateStr(Today + 1),
                                             valid_till |-> Num(5)])})
    \cup Deviation("items", {Null, Text("x"), List(<<>>), List(<<Text("x")>>),
                             List(<<NumericStringItem>>), List(<<NumberedItem>>),
                             List(<<StubItem, OverDiscountedItem>>),
                             List(<<NegativeItem>>)})
    \cup Deviation("totals", {Null, Text("x"), Num(5),
                              Obj(TotalsKeys, [shipping |-> NumStr(4950 * Paise),
                                               grand_total |-> Num(999 * Rupee)]),
                              Obj(TotalsKeys, [shipping |-> Text("free")]),
                              Obj(TotalsKeys, [shipping |-> Num(0 - 500 * Rupee)])})
    \cup Deviation("terms", {Text("x"),
                             Obj(TermsKeys, [bullets |-> List(<<Num(1)>>)]),
                             Obj(TermsKeys, [bullets |-> List(<<>>)]),
                             Obj(TermsKeys, [title |-> Num(3),
                                             bullets |-> List(<<Text("Net 15")>>)])})
    \cup Deviation("notes", {Text("Thanks"), Num(1)})
    \cup Deviation("payment", {Null, Text("x"), Obj(PaymentKeys, <<>>),
                               Obj(PaymentKeys, [mode |-> Text("BANK_TRANSFER")]),
                               Obj(PaymentKeys, [mode |-> Text("CASH")]),
                               Obj(PaymentKeys, [mode |-> Text("OTHER"),
                                                 upi_deeplink |-> Text("upi://fake")])})
    \cup Deviation("gst", {Text("x"),
                           Obj(GstKeys, [mode |-> Text("INTER"), cgst |-> Num(1 * Rupee),
                                         sgst |-> NumStr(2 * Rupee), igst |-> Text("x")]),
                           Obj(GstKeys, [mode |-> Text("intra")]),
                           Obj(GstKeys, [place_of_supply |-> Text("MH")]),
                           Obj(GstKeys, [cgst |-> Num(2250 * Rupee),
                                         sgst |-> Num(2250 * Rupee)])})

\* the payloads within n replaced fields of the payloads of S
RECURSIVE Deviated(_, _)
Deviated(S, n) ==
    IF n = 0 THEN S
    ELSE Deviated(S \cup {Dict([p.v EXCEPT ![d.key] = d.value]) : p \in S, d \in Deviations},
                  n - 1)

RawPayloadSet ==
    {Null, Text("sorry"), List(<<>>)} \cup Deviated({StubPayload, EmptyPayload}, MaxDeviations)

(* ---------------------------------------------------------------------- *)
(* The generation endpoints: request, provider reply, normalisation       *)
(* ---------------------------------------------------------------------- *)

\* a client posts a generation request
ReceiveRequest ==
    /\ genRequest = Absent
    /\ genRequest' \in RequestSet
    /\ UNCHANGED <<rawPayload, doc, outsideNorm>>

\* the provider's reply is parsed into a payload
ProviderReplies ==
    /\ genRequest # Absent
    /\ rawPayload = Absent
    /\ rawPayload' \in RawPayloadSet
    /\ UNCHANGED <<genRequest, doc, outsideNorm>>

\* POST /v1/generate/quotation: build_quotation_output(raw, request)
BuildQuotation ==
    /\ rawPayload # Absent
    /\ doc = Absent
    /\ doc' = build_quotation_output(rawPayload, genRequest)
    /\ UNCHANGED <<genRequest, rawPayload, outsideNorm>>

\* POST /v1/generate/invoice: build_invoice_output(raw, request)
BuildInvoice ==
    /\ rawPayload # Absent
    /\ doc = Absent
    /\ doc' = build_invoice_output(rawPayload, genRequest)
    /\ UNCHANGED <<genRequest, rawPayload, outsideNorm>>

NormNext == ReceiveRequest \/ ProviderReplies \/ BuildQuotation \/ BuildInvoice

SpecNorm == Init /\ [][NormNext]_vars

(* ---------------------------------------------------------------------- *)
(* Properties of the normalised documents                                 *)
(* ---------------------------------------------------------------------- *)

\* the builder that made a document of the type
BuildAs(doc_type, raw, request) ==
    IF doc_type = "QUOTATION" THEN build_quotation_output(raw, request)
    ELSE build_invoice_output(raw, request)

\* the totals fields a payload may carry besides shipping
AdvisoryKeys == TotalsKeys \ {"shipping"}
AdvisoryValues == {Missing, Num(999 * Rupee), Text("junk")}

\* what a payload may say in its advisory fields: the same in all of them, or
\* an amount in one of them only
AdvisoryVariants ==
    {[k \in AdvisoryKeys |-> v] : v \in AdvisoryValues}
    \cup {[k \in AdvisoryKeys |-> IF k = key THEN Num(999 * Rupee) ELSE Missing] :
              key \in AdvisoryKeys}

\* the payload with the advisory fields of its totals replaced, its shipping kept
WithAdvisory(raw, adv) ==
    LET totals == Get(raw, "totals")
        shipping_ == IF IsDict(totals) THEN Get(totals, "shipping") ELSE Missing
    IN  Dict([raw.v EXCEPT !["totals"] =
                 Dict([k \in TotalsKeys |-> IF k = "shipping" THEN shipping_ ELSE adv[k]])])

\* the payloads that differ from raw in advisory totals fields only
AdvisoryTwins(raw) ==
    IF IsDict(raw) /\ (IsDict(Get(raw, "totals")) \/ Get(raw, "totals") = Missing)
    THEN {WithAdvisory(raw, adv) : adv \in AdvisoryVariants}
    ELSE {raw}

\* C3: the totals of a document returned by build_quotation_output or
\* build_invoice_output are the totals recomputed from its items and shipping,
\* and every payload that differs only in totals.subtotal, discount_total,
\* tax_total, round_off, grand_total or amount_in_words gives, with the same
\* request, a document with the same totals.
C3_TotalsFromItemsOnly ==
    (doc # Absent /\ doc.ok) =>
        /\ doc.v.totals = _calculate_totals(doc.v.items, doc.v.totals.shipping)
        /\ \A twin \in AdvisoryTwins(rawPayload) :
               LET other == BuildAs(doc.v.doc_type, twin, genRequest)
               IN  other.ok /\ other.v.totals = doc.v.totals

\* an invoice was returned for a payload that claims a grand total of 999
\* and whose items and shipping come to something else
C3_Witness ==
    /\ doc # Absent /\ doc.ok
    /\ doc.v.doc_type = "TAX_INVOICE"
    /\ IsDict(rawPayload) /\ IsDict(Get(rawPayload, "totals"))
    /\ Get(Get(rawPayload, "totals"), "grand_total") = Num(999 * Rupee)
    /\ doc.v.totals.subtotal = 1000 * Rupee
    /\ doc.v.totals.shipping = 4950 * Paise
    /\ doc.v.totals.grand_total = 1218 * Rupee

\* C6: an invoice returned by build_invoice_output with a GST breakup has, in
\* mode INTRA, cgst = sgst = totals.tax_total / 2 and igst = 0, and in mode
\* INTER, igst = totals.tax_total and cgst = sgst = 0.
C6_GstBreakupFromTaxTotal ==
    (doc # Absent /\ doc.ok /\ doc.v.doc_type = "TAX_INVOICE" /\ doc.v.gst # Null) =>
        LET gst == doc.v.gst
            tax_total == doc.v.totals.tax_total
        IN  /\ gst.mode = Text("INTRA") =>
                   2 * gst.cgst = tax_total /\ 2 * gst.sgst = tax_total /\ gst.igst = 0
            /\ gst.mode = Text("INTER") =>
                   gst.igst = tax_total /\ gst.cgst = 0 /\ gst.sgst = 0

\* C7: build_quotation_output and build_invoice_output return a document and
\* never raise, whatever the raw payload is.
C7_BuildNeverRaises == doc # Absent => doc.ok

(* ---------------------------------------------------------------------- *)
(* The project brief (output_processing.py, models/outputs.py)            *)
(* ---------------------------------------------------------------------- *)

BriefKeys == {"title", "objective", "scope", "deliverables", "assumptions", "risks",
              "milestones", "billing_plan", "timeline_days", "seller", "buyer"}
PartKeys == {"when", "percent", "milestone", "percentage", "description"}
MilestoneKeys == {"name", "start", "end", "fee"}
RiskKeys == {"description", "impact", "probability", "mitigation"}

\* _to_int(value, default): int() truncates a float and reads a string of digits
_to_int(value, default) ==
    CASE IsNone(value) -> default
      [] value.kind \in {"num", "numstr"} -> value.v
      [] value.kind = "float" -> Trunc(value.v, 10)
      [] OTHER -> default

\* round(n / d) for integers n and d # 0
RoundDiv(n, d) == IF d > 0 THEN RoundHalfEven(n, d) ELSE RoundHalfEven(0 - n, 0 - d)

\* part.get("when") or f"Milestone {idx+1}", idx counted from 1 here
WhenOf(part, idx) == OrElse(Get(part, "when"), Str(<<"Milestone ", ToString(idx)>>))

BillingPartOf(when, percent) == Obj(PartKeys, [when |-> when, percent |-> Num(percent)])

DefaultBillingPlan ==
    <<BillingPartOf(Text("Project kickoff"), 40), BillingPartOf(Text("Midway"), 40),
      BillingPartOf(Text("Completion"), 20)>>

\* sum(_to_int(part.get("percent"), 0) for part in parts)
PercentTotal(parts) == SumSeq([i \in 1..Len(parts) |-> _to_int(Get(parts[i], "percent"), 0)])

\* max(round(_to_int(part.get("percent"), 0) * 100 / total), 0)
ScaledPercent(part, total) == Max(RoundDiv(_to_int(Get(part, "percent"), 0) * 100, total), 0)

\* the last part scaled like the others
LastPercentScaled(parts, total) == ScaledPercent(parts[Len(parts)], total)

\* percent = remainder: what the parts before the last leave of 100
LastPercent(parts, total) ==
    100 - SumSeq([i \in 1..(Len(parts) - 1) |-> ScaledPercent(parts[i], total)])

\* _normalise_billing_plan(raw_parts)
_normalise_billing_plan(raw_parts) ==
    LET given == IF IsList(raw_parts)
                 THEN [i \in 1..Len(raw_parts.v) |-> DictOr(raw_parts.v[i], PartKeys)]
                 ELSE <<>>
        parts == IF given = <<>> THEN DefaultBillingPlan ELSE given
        equal == RoundDiv(100, Len(parts))
        evened == IF PercentTotal(parts) = 0
                  THEN [i \in 1..Len(parts) |-> BillingPartOf(WhenOf(parts[i], i), equal)]
                  ELSE parts
        total == PercentTotal(evened)
    IN  IF total # 100
        THEN [i \in 1..Len(evened) |->
                 BillingPartOf(WhenOf(evened[i], i),
                               IF i = Len(evened) THEN LastPercent(evened, total)
                               ELSE ScaledPercent(evened[i], total))]
        ELSE evened

\* Optional[int] with ge=0, le=100: None, an int, a float without a fraction, or
\* a string of digits, within the range
IsOptionalPercent(x) ==
    \/ IsNone(x)
    \/ /\ x.kind \in {"num", "numstr"} \/ (x.kind = "float" /\ x.v % 10 = 0)
       /\ _to_int(x, 0) >= 0 /\ _to_int(x, 0) <= 100

\* None or the validated value of an optional field
Validated(x) == IF IsNone(x) THEN Null ELSE IF IsString(x) THEN x ELSE Num(_to_int(x, 0))

\* BillingPart._sync_fields: the new and the legacy fields filled from each other
_sync_fields(part) ==
    LET milestone == IF part.milestone = Null /\ Truthy(part.when) THEN part.when
                     ELSE part.milestone
        percentage == IF part.percentage = Null /\ part.percent # Null THEN part.percent
                      ELSE part.percentage
        when == IF part.when = Null /\ Truthy(milestone) THEN milestone ELSE part.when
        percent == IF part.percent = Null /\ percentage # Null THEN percentage
                   ELSE part.percent
    IN  [milestone |-> milestone, percentage |-> percentage,
         description |-> part.description, when |-> when, percent |-> percent]

\* BillingPart.model_validate(part)
BillingPart(part) ==
    IF /\ IsOptionalStr(Get(part, "milestone"))
       /\ IsOptionalPercent(Get(part, "percentage"))
       /\ IsOptionalStr(Get(part, "description"))
       /\ IsOptionalStr(Get(part, "when"))
       /\ IsOptionalPercent(Get(part, "percent"))
    THEN Ok(_sync_fields([k \in PartKeys |-> Validated(Get(part, k))]))
    ELSE Raise(ValidationError)

\* part.percentage if part.percentage else (part.percent or 0)
EffectivePercentage(part) ==
    IF Truthy(part.percentage) THEN part.percentage.v
    ELSE IF Truthy(part.percent) THEN part.percent.v ELSE 0

\* ProjectBriefOutput._billing_total: the total the validator computes
BillingTotal(plan) == SumSeq([i \in 1..Len(plan) |-> EffectivePercentage(plan[i])])

\* str(item) of a JSON scalar
PyStr(item) ==
    CASE item.kind = "str" -> item.v
      [] item.kind = "num" -> <<ToString(item.v)>>
      [] item.kind = "null" -> <<"None">>
      [] item.kind \in {"dict", "list"} -> <<ToString(item.v)>>

\* _ensure_scope(raw, fallback)
_ensure_scope(raw, fallback) ==
    LET texts == IF IsList(raw) THEN [i \in 1..Len(raw.v) |-> Strip(PyStr(raw.v[i]))]
                 ELSE <<>>
        cleaned == SelectSeq(texts, LAMBDA t : t # <<>>)
    IN  IF cleaned # <<>> THEN [i \in 1..Len(cleaned) |-> Str(cleaned[i])]
        ELSE IF Strip(fallback.v) # <<>> THEN <<Str(Strip(fallback.v))>>
        ELSE <<Text("Scope as per requirement")>>

\* date.fromisoformat(str(value)), else the default
DateOr(value, default) == IF IsIsoDate(value) THEN value.v ELSE default

DefaultMilestones ==
    <<Obj(MilestoneKeys, [name |-> Text("Discovery"), start |-> DateStr(Today),
                          end |-> DateStr(Today + 7), fee |-> Num(0)]),
      Obj(MilestoneKeys, [name |-> Text("Execution"), start |-> DateStr(Today + 8),
                          end |-> DateStr(Today + 30), fee |-> Num(0)])>>

\* one pass of the loop of _ensure_milestones
EnsuredMilestone(entry) ==
    LET start_date == DateOr(Get(entry, "start"), Today)
        end_date == DateOr(Get(entry, "end"), start_date + 7)
    IN  [name |-> OrElse(Get(entry, "name"), Text("Milestone")),
         start |-> start_date,
         end |-> Max(end_date, start_date),
         fee |-> _to_float(Get(entry, "fee"), 0)]

\* _ensure_milestones(raw, request)
_ensure_milestones(raw) ==
    LET given == IF IsList(raw)
                 THEN [i \in 1..Len(raw.v) |-> DictOr(raw.v[i], MilestoneKeys)]
                 ELSE <<>>
        milestones == IF given = <<>> THEN DefaultMilestones ELSE given
    IN  [i \in 1..Len(milestones) |-> EnsuredMilestone(milestones[i])]

\* Risk.model_validate(risk)
RiskValid(risk) == IsDict(risk) /\ \A k \in RiskKeys : IsString(Get(risk, k))

\* Optional[Union[List[str], List[Risk]]]
RisksValid(risks) ==
    \/ \A i \in 1..Len(risks) : IsString(risks[i])
    \/ \A i \in 1..Len(risks) : RiskValid(risks[i])

\* build_project_brief_output(raw, request)
build_project_brief_output(raw, request) ==
    LET data == DictOr(raw, BriefKeys)
        scope == _ensure_scope(Get(data, "scope"), request.requirement)
        deliverables == _ensure_scope(Get(data, "deliverables"), request.requirement)
        assumptions == IF IsList(Get(data, "assumptions")) THEN Get(data, "assumptions").v
                       ELSE <<>>
        risks == IF IsList(Get(data, "risks")) THEN Get(data, "risks").v ELSE <<>>
        milestones == _ensure_milestones(Get(data, "milestones"))
        billing_plan == _normalise_billing_plan(Get(data, "billing_plan"))
        timeline_days == _to_int(Get(data, "timeline_days"), 30)
        title == OrElse(Get(data, "title"),
                        Str(request.seller.name.v \o <<" - Project Brief">>))
        objective == OrElse(Get(data, "objective"), request.requirement)
        seller == _ensure_party(Get(data, "seller"), request.seller)
        buyer == _ensure_party(Get(data, "buyer"), request.buyer)
        parts == [i \in 1..Len(billing_plan) |-> BillingPart(billing_plan[i])]
        plan == [i \in 1..Len(parts) |-> parts[i].v]
    IN  IF /\ IsString(title) /\ IsString(objective)
           /\ \A i \in 1..Len(assumptions) : IsString(assumptions[i])
           /\ \A i \in 1..Len(milestones) : IsString(milestones[i].name)
           /\ RisksValid(risks)
           /\ PartyValid(seller) /\ PartyValid(buyer)
           /\ \A i \in 1..Len(parts) : parts[i].ok
           /\ BillingTotal(plan) = 100
        THEN Ok([title |-> title, objective |-> objective, scope |-> scope,
                 deliverables |-> deliverables, assumptions |-> assumptions,
                 milestones |-> milestones, timeline_days |-> Max(timeline_days, 1),
                 billing_plan |-> plan, risks |-> risks,
                 seller |-> seller, buyer |-> buyer])
        ELSE Raise(ValidationError)

(* ---------------------------------------------------------------------- *)
(* The payloads a provider may return for a project brief                 *)
(* ---------------------------------------------------------------------- *)

MaxParts == 3
MaxEqualParts == 10

\* the reply of the stub provider of tests/test_generate_endpoints.py
StubBrief ==
    Obj(BriefKeys,
        [title |-> Text("Website Revamp"), objective |-> Str(<<>>),
         scope |-> List(<<>>), deliverables |-> List(<<>>),
         milestones |-> List(<<Obj(MilestoneKeys,
                                   [name |-> Text("Phase 1"), start |-> DateStr(Today + 20),
                                    end |-> DateStr(Today + 29)])>>),
         timeline_days |-> Num(0),
         billing_plan |-> List(<<BillingPartOf(Text("Kickoff"), 30),
                                 BillingPartOf(Text("Final"), 30)>>),
         risks |-> List(<<>>)])

PercentValues ==
    {Missing, Num(0), Num(2), Num(3), Num(30), Num(50), Num(100), Num(0 - 50),
     Tenths(505), NumStr(30), Text("abc")}

\* the parts a billing plan is drawn from: the legacy shape with every percent
\* value, a part without a name, a part with a number for a name, the new
\* shape, both shapes at once, and a part that is not an object
PartSet ==
    {Obj(PartKeys, [when |-> Text("Kickoff"), percent |-> p]) : p \in PercentValues}
    \cup {Obj(PartKeys, [percent |-> Num(30)]),
          Obj(PartKeys, [when |-> Num(5), percent |-> Num(50)]),
          Obj(PartKeys, [milestone |-> Text("Go-live"), percentage |-> Num(30)]),
          Obj(PartKeys, [milestone |-> Text("Handover"), percentage |-> Num(70),
                         description |-> Text("Final payment")]),
          Obj(PartKeys, [milestone |-> Text("Go-live"), percentage |-> Num(70),
                         percent |-> Num(100)]),
          Obj(PartKeys, [percent |-> Num(100), percentage |-> Num(0)]),
          Text("half")}

PlanOf(percents) ==
    List([i \in 1..Len(percents) |-> BillingPartOf(Text("Stage"), percents[i])])

BillingPlanSet ==
    {Missing, Null, Text("40/60")}
    \cup {List(parts) : parts \in UNION {[1..n -> PartSet] : n \in 0..MaxParts}}
    \cup {PlanOf([i \in 1..n |-> 0]) : n \in 1..MaxEqualParts}
    \cup {PlanOf([i \in 1..n |-> 7]) : n \in 1..MaxEqualParts}
    \cup {PlanOf(<<2, 2, 3, 0>>), PlanOf(<<10, 10, 10, 10, 10, 10, 10, 10, 10, 10>>)}

BriefDeviation(key, value) == [key |-> key, value |-> value]

BriefDeviations ==
    {BriefDeviation("title", Missing), BriefDeviation("title", Num(7)),
     BriefDeviation("objective", Text("Relaunch")), BriefDeviation("objective", Num(7)),
     BriefDeviation("scope", List(<<Text("Design"), Text(" "), Num(3), Null>>)),
     BriefDeviation("scope", Text("Design")),
     BriefDeviation("scope", Obj({"in_scope", "out_of_scope"},
                                 [in_scope |-> List(<<Text("Design")>>),
                                  out_of_scope |-> List(<<Text("Marketing")>>)])),
     BriefDeviation("deliverables", List(<<Text("Site")>>)),
     BriefDeviation("deliverables",
                    List(<<Obj({"name", "description"},
                               [name |-> Text("Mockups"), description |-> Text("UI designs")])>>)),
     BriefDeviation("assumptions", List(<<Text("Content by client")>>)),
     BriefDeviation("assumptions", List(<<Num(1)>>)),
     BriefDeviation("risks", List(<<Text("Delay")>>)),
     BriefDeviation("risks", List(<<Obj(RiskKeys, [description |-> Text("Delay"),
                                                   impact |-> Text("High"),
                                                   probability |-> Text("Low"),
                                                   mitigation |-> Text("Buffer")])>>)),
     BriefDeviation("risks", List(<<Text("Delay"), Obj(RiskKeys, <<>>)>>)),
     BriefDeviation("milestones", Missing),
     BriefDeviation("milestones", List(<<Text("Phase 1"),
                                         Obj(MilestoneKeys,
                                             [name |-> Num(1), start |-> Text("soon"),
                                              end |-> DateStr(Today - 1)])>>)),
     BriefDeviation("timeline_days", Num(45)), BriefDeviation("timeline_days", Text("soon")),
     BriefDeviation("seller", Obj(PartyKeys, [name |-> Num(7)])),
     BriefDeviation("buyer", Obj(PartyKeys, [name |-> Text("Client Co"),
                                             email |-> Text("client@example.com")]))}

BriefPayloadSet ==
    {Null, Text("sorry")}
    \cup {Dict([StubBrief.v EXCEPT !["billing_plan"] = plan]) : plan \in BillingPlanSet}
    \cup {Dict([StubBrief.v EXCEPT ![d.key] = d.value]) : d \in BriefDeviations}

BriefRequestSet ==
    {GenerationRequest(SellerBank, SellerTaxPrefs, Text("KA"), Null),
     GenerationRequest(Null, Null, Null, Null)}

\* the provider's reply for a project brief has been parsed
BriefProviderReplies ==
    /\ briefRaw = Absent
    /\ briefRaw' \in BriefPayloadSet
    /\ UNCHANGED <<brief, outsideBrief>>

\* the project brief endpoint normalises the payload
BuildProjectBrief ==
    /\ briefRaw # Absent
    /\ brief = Absent
    /\ \E request \in BriefRequestSet :
           brief' = build_project_brief_output(briefRaw, request)
    /\ UNCHANGED <<briefRaw, outsideBrief>>

BriefNext == BriefProviderReplies \/ BuildProjectBrief

SpecBrief == Init /\ [][BriefNext]_vars

\* the plan the provider returned
RawPlan == Get(DictOr(briefRaw, BriefKeys), "billing_plan")

\* the sum of one field over the parts of a validated plan, None counted as 0
FieldTotal(plan, field) ==
    SumSeq([i \in 1..Len(plan) |-> IF plan[i][field] = Null THEN 0 ELSE plan[i][field].v])

\* the parts of the returned plan carry only the legacy fields
LegacyPlan(raw_parts) ==
    /\ IsList(raw_parts)
    /\ \A i \in 1..Len(raw_parts.v) :
           IsDict(raw_parts.v[i]) =>
               IsNone(Get(raw_parts.v[i], "percentage")) /\ IsNone(Get(raw_parts.v[i], "milestone"))

\* C5: the billing plan of every project brief build_project_brief_output
\* produces totals exactly 100: the normalised plan's percent values sum to 100
\* whatever plan came in (all-zero, missing, not summing to 100, 1 to 10
\* parts), the percentage the brief's validator reads off each part sums to
\* 100, and for a plan in the legacy shape so do the percent and the
\* percentage fields of the brief
C5_BillingPlanTotals100 ==
    /\ briefRaw # Absent => PercentTotal(_normalise_billing_plan(RawPlan)) = 100
    /\ (brief # Absent /\ brief.ok) =>
           /\ BillingTotal(brief.v.billing_plan) = 100
           /\ LegacyPlan(RawPlan) =>
                  /\ FieldTotal(brief.v.billing_plan, "percent") = 100
                  /\ FieldTotal(brief.v.billing_plan, "percentage") = 100

\* a brief was produced from a plan of three parts that did not sum to 100
C5_Witness ==
    /\ brief # Absent /\ brief.ok
    /\ IsList(RawPlan) /\ Len(RawPlan.v) = 3
    /\ \A i \in 1..3 : IsDict(RawPlan.v[i])
    /\ PercentTotal(RawPlan.v) = 90
    /\ FieldTotal(brief.v.billing_plan, "percent") = 100

\* a list of parts whose percent values are integers that are not negative
NonNegativePlan(raw_parts) ==
    /\ IsList(raw_parts)
    /\ \A i \in 1..Len(raw_parts.v) :
           /\ IsDict(raw_parts.v[i])
           /\ Get(raw_parts.v[i], "percent").kind = "num"
           /\ Get(raw_parts.v[i], "percent").v >= 0

\* C29: every part of the plan _normalise_billing_plan returns for a list of
\* parts with non-negative integer percentages has a percentage between 0 and
\* 100, the last part, which takes the remainder of the rescaling, included
C29_PartsWithinRange ==
    (briefRaw # Absent /\ NonNegativePlan(RawPlan)) =>
        \A i \in 1..Len(_normalise_billing_plan(RawPlan)) :
            /\ _to_int(Get(_normalise_billing_plan(RawPlan)[i], "percent"), 0) >= 0
            /\ _to_int(Get(_normalise_billing_plan(RawPlan)[i], "percent"), 0) <= 100

\* the parts of the plan are objects keyed by milestone and percentage alone
StructuredPlan(raw_parts) ==
    /\ IsList(raw_parts)
    /\ raw_parts.v # <<>>
    /\ \A i \in 1..Len(raw_parts.v) :
           /\ IsDict(raw_parts.v[i])
           /\ IsString(Get(raw_parts.v[i], "milestone"))
           /\ Get(raw_parts.v[i], "percentage").kind = "num"
           /\ IsNone(Get(raw_parts.v[i], "when")) /\ IsNone(Get(raw_parts.v[i], "percent"))
    /\ SumSeq([i \in 1..Len(raw_parts.v) |-> Get(raw_parts.v[i], "percentage").v]) = 100

\* a field of the raw brief payload
RawField(key) == Get(DictOr(briefRaw, BriefKeys), key)

\* a non-empty list of objects
ObjectList(raw) ==
    /\ IsList(raw)
    /\ raw.v # <<>>
    /\ \A i \in 1..Len(raw.v) : IsDict(raw.v[i])

\* C21: a project brief in the structured shape comes through
\* build_project_brief_output without loss: billing parts keyed by
\* milestone/percentage that sum to 100 keep their labels and percentages, a
\* scope object is returned as that object and a list of deliverable objects
\* as those objects
C21_StructuredShapeKept ==
    (brief # Absent /\ brief.ok) =>
        /\ StructuredPlan(RawPlan) =>
               /\ Len(brief.v.billing_plan) = Len(RawPlan.v)
               /\ \A i \in 1..Len(RawPlan.v) :
                      /\ brief.v.billing_plan[i].milestone = Get(RawPlan.v[i], "milestone")
                      /\ brief.v.billing_plan[i].percentage = Get(RawPlan.v[i], "percentage")
        /\ IsDict(RawField("scope")) => List(brief.v.scope) = RawField("scope")
        /\ ObjectList(RawField("deliverables")) =>
               List(brief.v.deliverables) = RawField("deliverables")

(* ---------------------------------------------------------------------- *)
(* Repair of a document bundle (app/services/repair.py) and the pydantic  *)
(* mirror of the bundle schema (models/document_models.py)                *)
(* ---------------------------------------------------------------------- *)

TypeError == "TypeError"

DraftKeys == PayloadKeys \cup {"parties"}
BundleKeys == {"drafts", "project_brief"}

\* value == text for a JSON value and a Python string
IsText(value, text) == value.kind = "str" /\ value.v = <<text>>

\* a float field of a pydantic model: a number or a string of digits
IsFloat(value) == value.kind \in {"num", "numstr"}

\* dict.setdefault(key, default), dict.get(key, default): the default only for
\* a key that is not there
SetDefault(d, key, default) == IF Get(d, key) = Missing THEN default ELSE Get(d, key)

\* Optional[date]: None or an ISO date
IsOptionalDate(value) == IsNone(value) \/ IsIsoDate(value)

\* Item of document_models.py: description, qty and unit_price are required,
\* the numbers are coerced by _coerce_numbers whatever they are
DraftItemValid(item) ==
    /\ IsDict(item)
    /\ IsString(Get(item, "description"))
    /\ Get(item, "qty") # Missing /\ Get(item, "unit_price") # Missing
    /\ Get(item, "unit") = Missing \/ IsString(Get(item, "unit"))
    /\ IsOptionalStr(Get(item, "hsn_sac"))

\* Totals of document_models.py
TotalsValid(totals) ==
    /\ IsDict(totals)
    /\ \A k \in {"subtotal", "discount_total", "tax_total", "grand_total"} :
           IsFloat(Get(totals, k))
    /\ \A k \in {"shipping", "round_off"} : Get(totals, k) = Missing \/ IsFloat(Get(totals, k))
    /\ IsOptionalStr(Get(totals, "amount_in_words"))

\* DocDraft.model_validate(draft) of document_models.py succeeds
DocDraftValid(draft) ==
    /\ IsDict(draft)
    /\ IsText(Get(draft, "doc_type"), "QUOTATION") \/ IsText(Get(draft, "doc_type"), "TAX_INVOICE")
    /\ \A k \in {"locale", "currency"} : Get(draft, k) = Missing \/ IsString(Get(draft, k))
    /\ \A k \in {"seller", "buyer"} :
           /\ IsDict(Get(draft, k))
           /\ IsString(Get(Get(draft, k), "name"))
           /\ \A f \in PartyKeys \ {"name"} : IsOptionalStr(Get(Get(draft, k), f))
    /\ \/ IsNone(Get(draft, "doc_meta"))
       \/ /\ IsDict(Get(draft, "doc_meta"))
          /\ \A f \in DocMetaKeys : IsOptionalStr(Get(Get(draft, "doc_meta"), f))
    /\ IsDict(Get(draft, "dates"))
    /\ IsIsoDate(Get(Get(draft, "dates"), "issue_date"))
    /\ IsOptionalDate(Get(Get(draft, "dates"), "due_date"))
    /\ IsOptionalDate(Get(Get(draft, "dates"), "valid_till"))
    /\ IsList(Get(draft, "items"))
    /\ \A i \in 1..Len(Get(draft, "items").v) : DraftItemValid(Get(draft, "items").v[i])
    /\ TotalsValid(Get(draft, "totals"))
    /\ IsDict(Get(draft, "terms"))
    /\ Get(Get(draft, "terms"), "title") = Missing \/ IsString(Get(Get(draft, "terms"), "title"))
    /\ IsList(Get(Get(draft, "terms"), "bullets"))
    /\ Get(Get(draft, "terms"), "bullets").v # <<>>
    /\ \A i \in 1..Len(Get(Get(draft, "terms"), "bullets").v) :
           IsString(Get(Get(draft, "terms"), "bullets").v[i])
    /\ IsOptionalStr(Get(draft, "notes"))
    /\ \/ IsNone(Get(draft, "payment"))
       \/ /\ IsDict(Get(draft, "payment"))
          /\ \/ IsNone(Get(Get(draft, "payment"), "mode"))
             \/ \E mode \in {"UPI", "BANK_TRANSFER", "OTHER"} :
                    IsText(Get(Get(draft, "payment"), "mode"), mode)
          /\ IsOptionalStr(Get(Get(draft, "payment"), "upi_deeplink"))
          /\ IsOptionalStr(Get(Get(draft, "payment"), "instructions"))

\* ProjectBrief.model_validate(brief) of document_models.py succeeds
ProjectBriefValid(pb) ==
    /\ IsDict(pb)
    /\ IsString(Get(pb, "title")) /\ IsString(Get(pb, "objective"))
    /\ \A k \in {"scope", "deliverables"} :
           IsList(Get(pb, k)) /\ \A i \in 1..Len(Get(pb, k).v) : IsString(Get(pb, k).v[i])
    /\ \A k \in {"assumptions", "risks"} :
           \/ Get(pb, k) = Missing
           \/ IsList(Get(pb, k)) /\ \A i \in 1..Len(Get(pb, k).v) : IsString(Get(pb, k).v[i])
    /\ IsList(Get(pb, "milestones"))
    /\ \A i \in 1..Len(Get(pb, "milestones").v) :
           LET ms == Get(pb, "milestones").v[i]
           IN  /\ IsDict(ms) /\ IsString(Get(ms, "name"))
               /\ IsIsoDate(Get(ms, "start")) /\ IsIsoDate(Get(ms, "end"))
               /\ Get(ms, "fee") = Missing \/ IsFloat(Get(ms, "fee"))
    /\ IsFloat(Get(pb, "timeline_days"))
    /\ IsList(Get(pb, "billing_plan"))
    /\ \A i \in 1..Len(Get(pb, "billing_plan").v) :
           LET part == Get(pb, "billing_plan").v[i]
           IN  /\ IsDict(part) /\ IsString(Get(part, "when"))
               /\ IsFloat(Get(part, "percent"))
               /\ Get(part, "percent").v >= 0 /\ Get(part, "percent").v <= 100

\* the line items of a draft as the totals engine reads them
NumItem(item) ==
    [qty |-> Get(item, "qty").v, unit_price |-> Get(item, "unit_price").v,
     discount |-> Get(item, "discount").v, tax_rate |-> Get(item, "tax_rate").v]

\* a computed totals block as JSON
JsonTotals(totals) ==
    Dict([k \in DOMAIN totals |->
             IF k = "amount_in_words" THEN Str(totals[k])
             ELSE IF k = "currency" THEN totals[k]
             ELSE Num(totals[k])])

\* DEFAULT_TERMS of app/services/repair.py
DEFAULT_TERMS ==
    List(<<Text("Prices exclusive of applicable taxes unless stated otherwise"),
           Text("Payment due within agreed timeline")>>)

\* _ensure_list(value)
_ensure_list(value) ==
    IF IsList(value) THEN value.v ELSE IF IsNone(value) THEN <<>> ELSE <<value>>

\* _coerce_item(raw): Item.model_validate(data).model_dump()
_coerce_item(raw) ==
    IF ~IsDict(raw) THEN Raise(AttributeError)
    ELSE LET number(key, default) ==
                 IF Get(raw, key) = Missing THEN Num(default)
                 ELSE Num(CoerceFloat(Get(raw, key)))
             data == Obj(ItemKeys,
                         [description |-> OrElse(Get(raw, "description"), Text("Line item")),
                          qty |-> number("qty", Qty(1)),
                          unit_price |-> number("unit_price", 0),
                          unit |-> SetDefault(raw, "unit", Text("pcs")),
                          discount |-> number("discount", 0),
                          tax_rate |-> number("tax_rate", 0),
                          hsn_sac |-> IF IsNone(Get(raw, "hsn_sac")) THEN Missing
                                      ELSE Get(raw, "hsn_sac")])
         IN  IF DraftItemValid(data) THEN Ok(data) ELSE Raise(ValidationError)

\* _repair_dates(draft): the dates block it leaves in the draft
_repair_dates(dates, doc_type) ==
    LET issue_raw == Get(dates, "issue_date")
        issue_date == IF Truthy(issue_raw) /\ IsIsoDate(issue_raw) THEN issue_raw.v ELSE Today
    IN  Dict([dates.v EXCEPT
                 !["issue_date"] = DateStr(issue_date),
                 !["due_date"] = IF IsText(doc_type, "TAX_INVOICE") /\ ~Truthy(@)
                                 THEN DateStr(issue_date + 7) ELSE @,
                 !["valid_till"] = IF IsText(doc_type, "QUOTATION") /\ ~Truthy(@)
                                   THEN DateStr(issue_date + 15) ELSE @])

\* model_dump(exclude_none=True) of a validated block: None fields left out
Dumped(block) == Dict([k \in DOMAIN block.v |-> IF IsNone(block.v[k]) THEN Missing ELSE block.v[k]])

\* repair_draft(draft) of app/services/repair.py
repair_draft(draft) ==
    IF ~IsDict(draft) THEN Raise(AttributeError)
    ELSE
    LET doc_type == SetDefault(draft, "doc_type", Text("QUOTATION"))
        party(key, name) == SetDefault(draft, key, Obj(PartyKeys, [name |-> Text(name)]))
        dates == SetDefault(draft, "dates", Obj(DatesKeys, <<>>))
        given == _ensure_list(Get(draft, "items"))
        raw_items == IF given = <<>>
                     THEN <<Obj(ItemKeys, [description |-> Text("Consulting services"),
                                           qty |-> Num(Qty(1)), unit_price |-> Num(0)])>>
                     ELSE given
        Dump(validated, totals) ==
            IF totals.amount_in_words = IndexError THEN Raise("IndexError")
            ELSE Ok(Dumped(Dict([validated.v EXCEPT !["totals"] = JsonTotals(totals),
                                                    !["gst"] = Missing])))
        Validate(filled, its) ==
            IF ~DocDraftValid(filled) THEN Raise(ValidationError)
            ELSE Dump(filled, compute_totals([i \in 1..Len(its) |-> NumItem(its[i])],
                                             _to_float(Get(Get(filled, "totals"), "shipping"), 0)))
        Fill(its) ==
            Validate(Dict([draft.v EXCEPT
                              !["doc_type"] = doc_type,
                              !["locale"] = SetDefault(draft, "locale", Text("en-IN")),
                              !["currency"] = SetDefault(draft, "currency", Str(INR)),
                              !["seller"] = Dumped(party("seller", "Seller")),
                              !["buyer"] = Dumped(party("buyer", "Buyer")),
                              !["terms"] = SetDefault(draft, "terms",
                                               Obj(TermsKeys, [title |-> Text("Terms & Conditions"),
                                                               bullets |-> DEFAULT_TERMS])),
                              !["totals"] = SetDefault(draft, "totals",
                                                Obj(TotalsKeys, [subtotal |-> Num(0),
                                                                 discount_total |-> Num(0),
                                                                 tax_total |-> Num(0),
                                                                 grand_total |-> Num(0),
                                                                 round_off |-> Num(0)])),
                              !["dates"] = _repair_dates(dates, doc_type),
                              !["items"] = List(its),
                              !["parties"] = Missing]),
                     its)
        Coerce(coerced) ==
            LET failed == {i \in 1..Len(coerced) : ~coerced[i].ok}
            IN  IF failed # {} THEN coerced[CHOOSE i \in failed : \A j \in failed : i <= j]
                ELSE Fill([i \in 1..Len(coerced) |-> coerced[i].v])
    IN  IF ~IsDict(party("seller", "Seller")) \/ ~IsDict(party("buyer", "Buyer")) \/ ~IsDict(dates)
        THEN Raise(AttributeError)
        ELSE Coerce([i \in 1..Len(raw_items) |-> _coerce_item(raw_items[i])])

\* repair_bundle(bundle) of app/services/repair.py
repair_bundle(bundle) ==
    LET raw_drafts == Get(bundle, "drafts")
        given == IF IsList(raw_drafts) /\ raw_drafts.v # <<>> THEN raw_drafts.v
                 ELSE <<Obj(DraftKeys, <<>>)>>
        project_brief == Get(bundle, "project_brief")
        Validate(drafts) ==
            LET failed == {i \in 1..Len(drafts) : ~drafts[i].ok}
            IN  IF failed # {} THEN drafts[CHOOSE i \in failed : \A j \in failed : i <= j]
                ELSE IF Truthy(project_brief) /\ ~ProjectBriefValid(project_brief)
                THEN Raise(ValidationError)
                ELSE Ok(Obj(BundleKeys,
                            [drafts |-> List([i \in 1..Len(drafts) |-> drafts[i].v]),
                             project_brief |-> IF Truthy(project_brief) THEN project_brief
                                               ELSE Missing]))
    IN  Validate([i \in 1..Len(given) |-> repair_draft(given[i])])

(* ---------------------------------------------------------------------- *)
(* Repair of a bundle held as plain dicts (ai-backend/app/services/       *)
(* repair.py).  The dicts are changed in place: an outcome carries, next  *)
(* to the returned value or the exception, the argument as the call left  *)
(* it.                                                                    *)
(* ---------------------------------------------------------------------- *)

\* the same dict, with room for the keys a repair may add
Widen(d, keys) == Dict(d.v @@ [k \in keys |-> Missing])

\* "key" not in d or not d["key"]
Lacks(d, key) == ~Truthy(Get(d, key))

\* repair_doc_meta(meta, doc_type)
repair_doc_meta(raw_meta, doc_type) ==
    LET meta == Widen(raw_meta, DocMetaKeys \cup DatesKeys \cup {"doc_id"})
        given == Get(meta, "issue_date")
        issue_date == IF Truthy(given) /\ IsIsoDate(given) THEN given.v ELSE Today
        prefix == IF IsText(doc_type, "QUOTATION") THEN "QT" ELSE "INV"
    IN  Dict([meta.v EXCEPT
                 !["doc_id"] = IF Lacks(meta, "doc_id")
                               THEN Str(<<prefix, "-", ToString(Today), "-001">>) ELSE @,
                 !["issue_date"] = DateStr(issue_date),
                 !["due_date"] = IF IsText(doc_type, "TAX_INVOICE") /\ Lacks(meta, "due_date")
                                 THEN DateStr(issue_date + 7) ELSE @,
                 !["valid_till"] = IF IsText(doc_type, "QUOTATION") /\ Lacks(meta, "valid_till")
                                   THEN DateStr(issue_date + 15) ELSE @])

\* repair_parties(parties)
repair_parties(raw_parties) ==
    LET parties == Widen(raw_parties, {"seller", "buyer"})
        party(key, name) ==
            LET given == Widen(DictOr(Get(parties, key), PartyKeys), PartyKeys \cup {"country"})
            IN  Dict([given.v EXCEPT
                         !["name"] = IF Lacks(given, "name") THEN Text(name) ELSE @,
                         !["country"] = IF @ = Missing THEN Text("India") ELSE @])
    IN  Dict([parties.v EXCEPT !["seller"] = party("seller", "Seller Name"),
                               !["buyer"] = party("buyer", "Buyer Name")])

\* repair_items(items): the dicts among them, their fields defaulted
repair_items(its) ==
    LET number(item, key, default) ==
            IF Get(item, key) = Missing THEN Num(default) ELSE Num(CoerceFloat(Get(item, key)))
        Repaired(item) ==
            Dict([item.v EXCEPT
                     !["description"] = IF Lacks(item, "description") THEN Text("Item") ELSE @,
                     !["qty"] = number(item, "qty", Qty(1)),
                     !["unit_price"] = number(item, "unit_price", 0),
                     !["discount"] = number(item, "discount", 0),
                     !["tax_rate"] = number(item, "tax_rate", 0),
                     !["unit"] = IF @ = Missing THEN Text("nos") ELSE @,
                     !["line_total"] = Num(0),
                     !["line_tax"] = Num(0)])
        Each(dicts) ==
            [i \in 1..Len(dicts) |->
                Repaired(Widen(dicts[i], ItemKeys \cup {"line_total", "line_tax", "sno"}))]
    IN  Each(SelectSeq(its, LAMBDA item : IsDict(item)))

\* what a call made of its argument and what came of it
Returned(value) == [ok |-> TRUE, v |-> value, left |-> value]
Raised(e, left) == [ok |-> FALSE, err |-> e, left |-> left]

\* repair_draft(draft) of ai-backend/app/services/repair.py
repair_draft_dict(draft) ==
    IF ~IsDict(draft) THEN Raised(TypeError, draft)
    ELSE
    LET doc_type == SetDefault(draft, "doc_type", Text("QUOTATION"))
        Finish(sofar, totals) ==
            IF Get(draft, "totals") # Missing /\ ~IsDict(Get(draft, "totals"))
            THEN Raised(AttributeError, sofar)
            ELSE IF totals.amount_in_words = IndexError THEN Raised("IndexError", sofar)
            ELSE Returned(Dict([sofar.v EXCEPT
                                   !["totals"] = JsonTotals(totals),
                                   !["terms"] = IF IsList(@) THEN @ ELSE List(<<>>),
                                   !["payment"] = IF IsDict(@) THEN @
                                                  ELSE Obj(PaymentKeys, <<>>)]))
        Recompute(its, recomputed) ==
            Finish(Dict([draft.v EXCEPT
                            !["doc_type"] = doc_type,
                            !["doc_meta"] = repair_doc_meta(DictOr(Get(draft, "doc_meta"),
                                                                   DocMetaKeys), doc_type),
                            !["parties"] = repair_parties(DictOr(Get(draft, "parties"),
                                                                 {"seller", "buyer"})),
                            !["items"] =
                                List([i \in 1..Len(its) |->
                                         Dict([its[i].v EXCEPT
                                                  !["line_total"] = Num(recomputed.items[i].line_total),
                                                  !["line_tax"] = Num(recomputed.items[i].line_tax),
                                                  !["sno"] = Num(i)])])]),
                   recomputed.totals)
        currency == IF IsDict(Get(draft, "totals"))
                       /\ "currency" \in DOMAIN Get(draft, "totals").v
                       /\ Get(draft, "totals").v["currency"] # Missing
                    THEN Get(draft, "totals").v["currency"]
                    ELSE Text("INR")
        Items(its) == Recompute(its, recompute_draft_totals([i \in 1..Len(its) |-> NumItem(its[i])],
                                                            currency))
    IN  Items(repair_items(IF IsList(Get(draft, "items")) THEN Get(draft, "items").v ELSE <<>>))

\* repair_bundle(bundle) of ai-backend/app/services/repair.py
repair_bundle_dict(bundle) ==
    LET given == IF IsList(Get(bundle, "drafts")) THEN Get(bundle, "drafts").v ELSE <<>>
        Loop(drafts) ==
            LET failed == {i \in 1..Len(given) : ~drafts[i].ok}
                first == IF failed = {} THEN Len(given) + 1
                         ELSE CHOOSE i \in failed : \A j \in failed : i <= j
                left == Dict([bundle.v EXCEPT
                                 !["drafts"] = List([i \in 1..Len(given) |->
                                                        IF i <= first THEN drafts[i].left
                                                        ELSE given[i]])])
            IN  IF failed = {} THEN Returned(left) ELSE Raised(drafts[first].err, left)
    IN  Loop([i \in 1..Len(given) |-> repair_draft_dict(given[i])])

\* DocumentBundle.model_validate(bundle) of document_models.py succeeds: the
\* pydantic mirror of the bundle schema accepts the bundle
BundleValid(b) ==
    /\ IsDict(b)
    /\ IsList(Get(b, "drafts"))
    /\ \A i \in 1..Len(Get(b, "drafts").v) : DocDraftValid(Get(b, "drafts").v[i])
    /\ IsNone(Get(b, "project_brief")) \/ ProjectBriefValid(Get(b, "project_brief"))

(* ---------------------------------------------------------------------- *)
(* The bundles handed to repair                                           *)
(* ---------------------------------------------------------------------- *)

MaxDrafts == 2

\* a well-formed quotation draft
StubDraft == Widen(StubPayload, DraftKeys)

\* the corrupted draft of tests/smoke_matrix.py (test_5_validate_repair), its
\* amounts a hundredth of the test's
CorruptedDraft ==
    Obj(DraftKeys,
        [doc_type |-> Text("QUOTATION"),
         seller |-> Obj(PartyKeys, [name |-> Text("Test")]),
         buyer |-> Obj(PartyKeys, [name |-> Text("Buyer")]),
         dates |-> Obj(DatesKeys, [issue_date |-> DateStr(RawIssueDate)]),
         items |-> List(<<Obj(ItemKeys, [description |-> Text("Item 1"),
                                         unit_price |-> NumStr(280 * Rupee),
                                         tax_rate |-> Num(18)])>>),
         totals |-> Obj(TotalsKeys, <<>>)])

With(draft, key, value) == Dict([draft.v EXCEPT ![key] = value])

DraftSet ==
    {StubDraft, CorruptedDraft, Obj(DraftKeys, <<>>), Text("draft"), Null,
     With(StubDraft, "doc_type", Text("PROJECT_BRIEF")),
     With(StubDraft, "doc_type", Text("TAX_INVOICE")),
     With(StubDraft, "doc_type", Missing),
     With(StubDraft, "doc_type", Null),
     With(StubDraft, "totals", Missing),
     With(StubDraft, "totals", Text("n/a")),
     With(StubDraft, "totals", Dict([currency |-> Text("USD"), subtotal |-> Num(999 * Rupee)]
                                    @@ StubTotals.v)),
     With(StubDraft, "seller", Missing),
     With(StubDraft, "seller", Text("Acme")),
     With(StubDraft, "parties",
          Obj({"seller", "buyer"}, [seller |-> Obj(PartyKeys, [name |-> Text("Acme")])])),
     With(StubDraft, "items", Missing),
     With(StubDraft, "items", List(<<Text("retainer"), NumericStringItem>>)),
     With(StubDraft, "items", List(<<OverDiscountedItem, StubItem>>)),
     With(StubDraft, "items", List(<<OverDiscountedItem>>)),
     With(StubDraft, "items", List(<<Obj(ItemKeys, [unit |-> Null])>>)),
     With(StubDraft, "dates", Text("today")),
     With(StubDraft, "dates", Obj(DatesKeys, [issue_date |-> Text("soon"),
                                              valid_till |-> Text("later")])),
     With(StubDraft, "doc_meta", Obj(DocMetaKeys, [doc_no |-> Num(7)])),
     With(StubDraft, "doc_meta", Obj(DocMetaKeys \cup DatesKeys,
                                     [issue_date |-> DateStr(RawIssueDate),
                                      valid_till |-> Text("later")])),
     With(StubDraft, "doc_meta", Obj(DocMetaKeys \cup DatesKeys,
                                     [issue_date |-> Text("soon"),
                                      valid_till |-> DateStr(RawIssueDate + 30)])),
     With(StubDraft, "terms", List(<<Text("Net 15")>>)),
     With(StubDraft, "terms", Obj(TermsKeys, [bullets |-> List(<<>>)])),
     With(StubDraft, "payment", Obj(PaymentKeys, [mode |-> Text("CASH")])),
     With(StubDraft, "currency", Num(356)),
     With(StubDraft, "notes", Num(0))}

BundleSet ==
    {Obj(BundleKeys, [drafts |-> d]) : d \in {Missing, Null, Text("none")}}
    \cup {Obj(BundleKeys, [drafts |-> List(ds)]) :
              ds \in UNION {[1..n -> DraftSet] : n \in 0..MaxDrafts}}
    \cup {Obj(BundleKeys, [drafts |-> List(ds), project_brief |-> pb]) :
              ds \in {<<>>, <<StubDraft>>}, pb \in {StubBrief, Text("later"), Null}}

\* a caller holds a bundle to repair
SubmitBundle ==
    /\ bundleIn = Absent
    /\ bundleIn' \in BundleSet
    /\ UNCHANGED <<repaired, outsideRepair>>

\* POST /repair of app: repair_bundle works on a deep copy
RepairBundle ==
    /\ bundleIn # Absent
    /\ repaired = Absent
    /\ repaired' = [service |-> "app"] @@ repair_bundle(bundleIn)
    /\ UNCHANGED <<bundleIn, outsideRepair>>

\* POST /repair of ai-backend: repair_bundle changes the caller's dicts
RepairBundleDict ==
    /\ bundleIn # Absent
    /\ repaired = Absent
    /\ repaired' = [service |-> "ai-backend"] @@ repair_bundle_dict(bundleIn)
    /\ bundleIn' = repaired'.left
    /\ UNCHANGED outsideRepair

RepairNext == SubmitBundle \/ RepairBundle \/ RepairBundleDict

SpecRepair == Init /\ [][RepairNext]_vars

\* C4: for every bundle, repair_bundle returns a bundle (it does not raise)
\* and the returned bundle passes schema validation
C4_RepairReturnsValid == repaired # Absent => repaired.ok /\ BundleValid(repaired.v)

\* the drafts of a bundle, none when the bundle has no list of drafts
DraftsOf(b) == IF IsDict(b) /\ IsList(Get(b, "drafts")) THEN Get(b, "drafts").v ELSE <<>>

\* doc_type is one of the two document types
DocTypeInEnum(draft) ==
    /\ IsDict(draft)
    /\ IsText(Get(draft, "doc_type"), "QUOTATION") \/ IsText(Get(draft, "doc_type"), "TAX_INVOICE")

\* C12: after repair every draft's doc_type is QUOTATION or TAX_INVOICE, and
\* a draft whose doc_type was missing or any other value comes out as a
\* QUOTATION (the app repair works on a copy, so its input is still there
\* to compare with).
C12_DocTypeForced ==
    (repaired # Absent /\ repaired.ok) =>
        /\ \A i \in 1..Len(DraftsOf(repaired.v)) : DocTypeInEnum(DraftsOf(repaired.v)[i])
        /\ repaired.service = "app" =>
               \A i \in 1..Len(DraftsOf(bundleIn)) :
                   ~DocTypeInEnum(DraftsOf(bundleIn)[i]) =>
                       IsText(Get(DraftsOf(repaired.v)[i], "doc_type"), "QUOTATION")

\* C13: the bundle repair_bundle returns holds at least one draft, and
\* exactly one, the default draft, when the input's drafts are missing, not a
\* list or empty (the app repair works on a copy, so its input is still
\* there to compare with).
C13_AtLeastOneDraft ==
    (repaired # Absent /\ repaired.ok) =>
        /\ Len(DraftsOf(repaired.v)) >= 1
        /\ (repaired.service = "app" /\ DraftsOf(bundleIn) = <<>>) =>
               Len(DraftsOf(repaired.v)) = 1

\* the item list of a returned draft, as the totals engines read it
ReturnedItems(draft) ==
    IF IsList(Get(draft, "items"))
    THEN [i \in 1..Len(Get(draft, "items").v) |-> NumItem(Get(draft, "items").v[i])]
    ELSE <<>>

\* C14: in every draft returned by repair the totals block is the totals
\* computed from that draft's repaired item list (with the shipping the
\* block shows); no other totals value of the input draft has an effect
C14_TotalsFromRepairedItems ==
    (repaired # Absent /\ repaired.ok) =>
        \A i \in 1..Len(DraftsOf(repaired.v)) :
            LET draft == DraftsOf(repaired.v)[i]
            IN  IF repaired.service = "app"
                THEN Get(draft, "totals") =
                         JsonTotals(compute_totals(ReturnedItems(draft),
                                                   Get(Get(draft, "totals"), "shipping").v))
                ELSE Get(draft, "totals") =
                         JsonTotals(recompute_draft_totals(ReturnedItems(draft), Text("INR")).totals)

(* ---------------------------------------------------------------------- *)
(* JSON extraction (ai-backend/app/utils/json_extractor.py,               *)
(* app/services/validation.py, ai-backend drafting_service.py).  A text   *)
(* is a sequence of tokens: a code fence, the tag json, a newline, the    *)
(* two braces, one object member and a word of prose.                     *)
(* ---------------------------------------------------------------------- *)

\* the three backquotes of a code fence
Fence == "fence"
Tag == "json"
Newline == "\n"
LBrace == "{"
RBrace == "}"
Member == "\"a\":1"
Prose == "note"
\* the members of a reply that is a bundle: one well-formed draft, and the
\* corrupted draft of tests/smoke_matrix.py
ValidDrafts == "\"drafts\":[stub]"
CorruptedDrafts == "\"drafts\":[corrupted]"

ValueError == "ValueError"
APIError == "APIError"
ProviderError == "Exception"

Least(S) == CHOOSE i \in S : \A j \in S : i <= j
Greatest(S) == CHOOSE i \in S : \A j \in S : i >= j

\* the text without the whitespace around it
StripSpace(text) ==
    LET Inked(at) == IF at = {} THEN <<>> ELSE SubSeq(text, Least(at), Greatest(at))
    IN  Inked({i \in 1..Len(text) : text[i] # Newline})

\* the keys an object of the texts can carry
ObjectKeys == {"a"}

\* json.loads(text): the object the text is, or JSONDecodeError (a ValueError)
json_loads(text) ==
    LET Members(inner) ==
            IF inner = <<>> THEN Ok(Obj(ObjectKeys, <<>>))
            ELSE IF inner = <<Member>> THEN Ok(Obj(ObjectKeys, [a |-> Num(1)]))
            ELSE IF inner = <<ValidDrafts>>
            THEN Ok(Obj(ObjectKeys \cup BundleKeys, [drafts |-> List(<<StubDraft>>)]))
            ELSE IF inner = <<CorruptedDrafts>>
            THEN Ok(Obj(ObjectKeys \cup BundleKeys, [drafts |-> List(<<CorruptedDraft>>)]))
            ELSE Raise(ValueError)
        Document(body) ==
            IF Len(body) < 2 \/ body[1] # LBrace \/ body[Len(body)] # RBrace
            THEN Raise(ValueError)
            ELSE Members(StripSpace(SubSeq(body, 2, Len(body) - 1)))
    IN  Document(StripSpace(text))

\* what re.search gives: no match, or the matched group
NoMatch == [found |-> FALSE]
Match(group) == [found |-> TRUE, group |-> group]

\* re.search of ```(?:json)?\s*(\{.*\})\s*``` under DOTALL: group 1 of the
\* leftmost match, .* taking the longest span when greedy and the shortest
\* (.*?) when not.  OpenBrace is where ```(?:json)?\s*\{ tried at the fence
\* at i finds the brace (0 for no match), ClosesBlock is \}\s*``` tried at e
FencedObject(text, greedy) ==
    LET AfterSpace(j) ==
            Least({k \in j..(Len(text) + 1) : k > Len(text) \/ text[k] # Newline})
        Brace(k) == IF k <= Len(text) /\ text[k] = LBrace THEN k ELSE 0
        OpenBrace(i) ==
            Brace(AfterSpace(IF i < Len(text) /\ text[i + 1] = Tag THEN i + 2 ELSE i + 1))
        ClosesBlock(e) ==
            /\ text[e] = RBrace
            /\ \E f \in (e + 1)..Len(text) :
                   text[f] = Fence /\ \A m \in (e + 1)..(f - 1) : text[m] = Newline
        Ends(i) == {e \in (OpenBrace(i) + 1)..Len(text) : ClosesBlock(e)}
        Group(i) ==
            SubSeq(text, OpenBrace(i), IF greedy THEN Greatest(Ends(i)) ELSE Least(Ends(i)))
        Leftmost(starts) == IF starts = {} THEN NoMatch ELSE Match(Group(Least(starts)))
    IN  Leftmost({i \in 1..Len(text) : text[i] = Fence /\ OpenBrace(i) # 0 /\ Ends(i) # {}})

\* _JSON_BLOCK.search(text) of json_extractor.py
_JSON_BLOCK(text) == FencedObject(text, FALSE)

\* _OBJECT_MATCH.search(text), re.search(r"\{.*\}", raw, re.DOTALL)
_OBJECT_MATCH(text) ==
    LET opens == {i \in 1..Len(text) : text[i] = LBrace}
        closes == {i \in 1..Len(text) : text[i] = RBrace}
    IN  IF opens = {} \/ closes = {} THEN NoMatch
        ELSE IF Greatest(closes) < Least(opens) THEN NoMatch
        ELSE Match(SubSeq(text, Least(opens), Greatest(closes)))

\* the try/except ladder: json.loads of the first candidate that was found
\* and that parses, ValueError when there is none
FirstParsed(candidates) ==
    LET Pick(parsed) ==
            IF parsed = {} THEN Raise(ValueError)
            ELSE json_loads(candidates[Least(parsed)].group)
    IN  Pick({i \in 1..Len(candidates) :
                 candidates[i].found /\ json_loads(candidates[i].group).ok})

\* extract_json(text) of ai-backend/app/utils/json_extractor.py
extract_json(text) == FirstParsed(<<Match(text), _JSON_BLOCK(text), _OBJECT_MATCH(text)>>)

\* ValidationService.extract_json(raw) of app/services/validation.py
ValidationService_extract_json(raw) ==
    FirstParsed(<<Match(raw), FencedObject(raw, TRUE), _OBJECT_MATCH(raw)>>)

\* DraftingService._extract_json(content) of ai-backend drafting_service.py:
\* the ladder of json_extractor.py, and {"drafts": []} where that one raises
_extract_json(content) ==
    LET Fallback(found) ==
            IF found.ok THEN Widen(found.v, BundleKeys)
            ELSE Obj(BundleKeys \cup ObjectKeys, [drafts |-> List(<<>>)])
    IN  Fallback(extract_json(content))

(* ---------------------------------------------------------------------- *)
(* The generation entry points, from the provider's result to what the    *)
(* caller gets                                                            *)
(* ---------------------------------------------------------------------- *)

\* no provider is configured
NoProvider == [ok |-> FALSE, err |-> "None"]

\* an HTTP response: a body, or the APIError raised
Respond(status, outcome) == [status |-> status] @@ outcome

\* generate_invoice(payload, request, ...) of api/v1/generate_invoice.py
generate_invoice(result, payload) ==
    LET Built(output_model) ==
            IF output_model.ok THEN Respond(200, output_model)
            ELSE Respond(500, output_model)
        Extracted(raw_payload) ==
            IF ~raw_payload.ok THEN Respond(502, Raise(APIError))
            ELSE Built(build_invoice_output(Widen(raw_payload.v, PayloadKeys), payload))
    IN  IF result = NoProvider THEN Respond(503, Raise(APIError))
        ELSE IF ~result.ok THEN Respond(502, Raise(APIError))
        ELSE Extracted(extract_json(result.v))

\* DraftingService._structured_bundle(...) of app/services/drafting_service.py
\* for a requirement without budget, timeline, buyer or maintenance, and no
\* seller defaults; the unit price is 85% of the average of 35000 and 45000,
\* a hundredth of it here
_structured_bundle(primary_doc_type) ==
    Obj(BundleKeys \cup ObjectKeys,
        [drafts |-> List(<<
            Obj(DraftKeys,
                [doc_type |-> Text(primary_doc_type),
                 locale |-> Text("en-IN"),
                 currency |-> Str(INR),
                 seller |-> Obj(PartyKeys, [name |-> Text("Seller")]),
                 buyer |-> Obj(PartyKeys, [name |-> Text("Client")]),
                 doc_meta |-> Obj(DocMetaKeys,
                                  [doc_no |-> IF primary_doc_type = "TAX_INVOICE"
                                              THEN Text("INV-today") ELSE Missing,
                                   ref_no |-> Text("REF-today")]),
                 dates |-> Obj(DatesKeys, [issue_date |-> DateStr(Today)]),
                 items |-> List(<<Obj(ItemKeys,
                                     [description |-> Str(Requirement),
                                      qty |-> Num(Qty(1)),
                                      unit_price |-> Num(340 * Rupee),
                                      unit |-> Text("package"),
                                      discount |-> Num(0),
                                      tax_rate |-> Num(18)])>>),
                 totals |-> StubTotals,
                 terms |-> Obj(TermsKeys,
                               [title |-> Text("Terms & Conditions"),
                                bullets |-> List(<<Text("Quotation valid for 15 days from issue date"),
                                                   Text("50% advance via UPI, balance on delivery"),
                                                   Text("Project timeline: 2 weeks"),
                                                   Text("Work executed for Client with GST @18% applied")>>)]),
                 notes |-> Text("Estimated delivery timeline of 2 weeks.")])>>)])

\* DraftingService.generate_bundle(provider, ...) of app/services/
\* drafting_service.py; validate is taken from the pydantic models
generate_bundle(result, primary_doc_type) ==
    LET Checked(payload) ==
            IF BundleValid(payload) THEN Ok(payload) ELSE repair_bundle(payload)
        Extracted(found) ==
            IF found.ok THEN Checked(Widen(found.v, BundleKeys))
            ELSE Checked(_structured_bundle(primary_doc_type))
    IN  IF result = NoProvider THEN Ok(_structured_bundle(primary_doc_type))
        ELSE IF ~result.ok THEN Checked(_structured_bundle(primary_doc_type))
        ELSE Extracted(ValidationService_extract_json(result.v))

\* create_draft(request, ...) of ai-backend/app/api/v1/draft.py around
\* DraftingService.generate_bundle of ai-backend drafting_service.py
create_draft(result) ==
    LET Repaired(outcome) ==
            IF outcome.ok THEN Respond(200, Ok(outcome.v))
            ELSE Respond(500, Raise(APIError))
        Checked(bundle) ==
            IF BundleValid(bundle) THEN Respond(200, Ok(bundle))
            ELSE Repaired(repair_bundle_dict(bundle))
    IN  IF result = NoProvider THEN Respond(400, Raise(APIError))
        ELSE IF ~result.ok THEN Respond(500, Raise(APIError))
        ELSE Checked(_extract_json(result.v))

(* ---------------------------------------------------------------------- *)
(* The texts a provider may return: up to MaxChunks pieces, each a token  *)
(* or a whole object                                                      *)
(* ---------------------------------------------------------------------- *)

MaxChunks == 5

ChunkSet ==
    {<<Prose>>, <<Newline>>, <<Fence>>, <<Tag>>, <<LBrace>>, <<RBrace>>,
     <<LBrace, Member, RBrace>>}

RECURSIVE Flatten(_)
Flatten(chunks) == IF chunks = <<>> THEN <<>> ELSE Head(chunks) \o Flatten(Tail(chunks))

\* a reply that is a bundle, bare or in a fenced block after a line of prose
BundleTexts ==
    UNION {{<<LBrace, drafts, RBrace>>,
            <<Prose, Newline, Fence, Tag, Newline, LBrace, drafts, RBrace, Newline, Fence>>} :
               drafts \in {ValidDrafts, CorruptedDrafts}}

TextSet ==
    {Flatten(chunks) : chunks \in UNION {[1..n -> ChunkSet] : n \in 0..MaxChunks}}
        \cup BundleTexts

\* the provider's part in a request: none is configured, provider.generate
\* raises, or it returns a text
ProviderGenerate ==
    /\ llmResult = Absent
    /\ llmResult' \in {NoProvider, Raise(ProviderError)} \cup {Ok(text) : text \in TextSet}
    /\ UNCHANGED <<extracted, response, outsideExtract>>

\* a text is in hand and nothing has been done with it
TextInHand == llmResult # Absent /\ llmResult.ok /\ extracted = Absent /\ response = Absent

\* extract_json of json_extractor.py on the text
ExtractJson ==
    /\ TextInHand
    /\ extracted' = [fn |-> "json_extractor"] @@ extract_json(llmResult.v)
    /\ UNCHANGED <<llmResult, response, outsideExtract>>

\* ValidationService.extract_json on the text
ValidationExtractJson ==
    /\ TextInHand
    /\ extracted' = [fn |-> "validation"] @@ ValidationService_extract_json(llmResult.v)
    /\ UNCHANGED <<llmResult, response, outsideExtract>>

\* a call is to be answered
Unanswered == llmResult # Absent /\ extracted = Absent /\ response = Absent

\* POST /v1/generate/invoice
GenerateInvoice ==
    /\ Unanswered
    /\ \E payload \in RequestSet :
           response' = [entry |-> "generate_invoice"] @@ generate_invoice(llmResult, payload)
    /\ UNCHANGED <<llmResult, extracted, outsideExtract>>

\* DraftingService.generate_bundle of app
GenerateBundle ==
    /\ Unanswered
    /\ \E primary_doc_type \in {"QUOTATION", "TAX_INVOICE"} :
           response' = [entry |-> "generate_bundle"]
                           @@ generate_bundle(llmResult, primary_doc_type)
    /\ UNCHANGED <<llmResult, extracted, outsideExtract>>

\* POST /draft of ai-backend
CreateDraft ==
    /\ Unanswered
    /\ response' = [entry |-> "create_draft"] @@ create_draft(llmResult)
    /\ UNCHANGED <<llmResult, extracted, outsideExtract>>

ExtractNext ==
    \/ ProviderGenerate
    \/ ExtractJson \/ ValidationExtractJson
    \/ GenerateInvoice \/ GenerateBundle \/ CreateDraft

SpecExtract == Init /\ [][ExtractNext]_vars

(* ---------------------------------------------------------------------- *)
(* Properties of extraction                                               *)
(* ---------------------------------------------------------------------- *)

\* no part of the text is a JSON document
NoParseableJson(text) ==
    \A i \in 1..Len(text) : \A j \in i..Len(text) : ~json_loads(SubSeq(text, i, j)).ok

\* C8: when the provider's text holds no parseable JSON, every generation
\* entry point still returns a document to its caller, never an error
C8_ExtractionFailureRecovered ==
    (response # Absent /\ llmResult.ok /\ NoParseableJson(llmResult.v)) => response.ok

\* the contents of the first fenced code block, a leading json tag dropped
FirstFencedBlock(text) ==
    LET Untagged(inside) ==
            IF inside # <<>> /\ Head(inside) = Tag THEN Tail(inside) ELSE inside
        Block(fences) ==
            IF Cardinality(fences) < 2 THEN NoMatch
            ELSE Match(Untagged(SubSeq(text, Least(fences) + 1,
                                       Least(fences \ {Least(fences)}) - 1)))
    IN  Block({i \in 1..Len(text) : text[i] = Fence})

\* the span from the first '{' to the last '}'
FirstToLastBrace(text) ==
    LET Span(opens, closes) ==
            IF opens = {} \/ closes = {} THEN NoMatch
            ELSE IF Greatest(closes) < Least(opens) THEN NoMatch
            ELSE Match(SubSeq(text, Least(opens), Greatest(closes)))
    IN  Span({i \in 1..Len(text) : text[i] = LBrace}, {i \in 1..Len(text) : text[i] = RBrace})

\* the three strategies in their order: the whole text, the first fenced
\* block, the span of the braces
Strategies(text) == <<Match(text), FirstFencedBlock(text), FirstToLastBrace(text)>>

\* C9: extract_json returns the result of the first of the three strategies
\* (whole text, contents of the first fenced block, first '{' to last '}')
\* that parses, and fails exactly when all three fail
C9_FirstParsingStrategy ==
    extracted # Absent =>
        /\ extracted.ok = FirstParsed(Strategies(llmResult.v)).ok
        /\ extracted.ok => extracted.v = FirstParsed(Strategies(llmResult.v)).v

\* C15: the bundle DraftingService.generate_bundle returns has at least one
\* draft and passes validation on every path: no provider, the provider call
\* failing, a text without JSON, JSON that fails validation, and valid JSON
C15_BundleAlwaysValid ==
    (response # Absent /\ response.entry \in {"generate_bundle", "create_draft"}
        /\ ~(response.entry = "create_draft" /\ llmResult = NoProvider)) =>
        /\ response.ok
        /\ BundleValid(response.v)
        /\ Len(DraftsOf(response.v)) >= 1

\* an invoice has been returned by build_invoice_output
InvoiceReturned == doc # Absent /\ doc.ok /\ doc.v.doc_type = "TAX_INVOICE"

\* the doc_no entry of the raw payload's doc_meta, and the doc_no of the hints
RawDocNoEntry == Get(DictOr(Get(DictOr(rawPayload, PayloadKeys), "doc_meta"), DocMetaKeys), "doc_no")
HintedDocNo ==
    IF HintOf(genRequest, "doc_meta") # Null /\ HintOf(genRequest, "doc_meta").doc_no # Null
    THEN HintOf(genRequest, "doc_meta").doc_no
    ELSE Missing

\* C16: every invoice build_invoice_output returns has a non-empty
\* doc_meta.doc_no: a doc_no of the raw payload is kept, else the hint doc_no
\* is used, else "INV-" and the current date are synthesized
C16_DocNoLadder ==
    InvoiceReturned =>
        /\ Truthy(doc.v.doc_meta["doc_no"])
        /\ doc.v.doc_meta["doc_no"] =
               IF Truthy(RawDocNoEntry) THEN RawDocNoEntry
               ELSE IF Truthy(HintedDocNo) THEN HintedDocNo
               ELSE DefaultDocNo("INV")

\* discount <= qty x unit_price, the quantity counted in tenths
DiscountWithinGross(item) == item.discount * 10 <= item.qty * item.unit_price

\* C17: every line item of a document returned by the normalizer or by
\* repair has discount <= qty x unit_price
C17_DiscountCapped ==
    /\ (doc # Absent /\ doc.ok) =>
           \A i \in 1..Len(doc.v.items) : DiscountWithinGross(doc.v.items[i])
    /\ (repaired # Absent /\ repaired.ok) =>
           \A d \in 1..Len(DraftsOf(repaired.v)) :
               \A i \in 1..Len(ReturnedItems(DraftsOf(repaired.v)[d])) :
                   DiscountWithinGross(ReturnedItems(DraftsOf(repaired.v)[d])[i])

\* C30: repair_bundle and repair_draft leave their argument unchanged: after
\* the call the bundle the caller holds, its drafts and their items, dates
\* and totals are what they were before it
C30_ArgumentUnchanged ==
    [][(repaired = Absent /\ repaired' # Absent) => bundleIn' = bundleIn]_vars

\* d[key] of a block that may not be a dict or may not hold the key
Entry(d, key) == IF IsDict(d) /\ key \in DOMAIN d.v THEN d.v[key] ELSE Missing

\* the second date the rule gives: the supplied value when it parses, else
\* the hinted one, else the issue date plus the days of the document type
DerivedDate(issue_date, supplied, hinted, days) ==
    IF IsIsoDate(supplied) THEN supplied.v
    ELSE IF IsIsoDate(hinted) THEN hinted.v
    ELSE issue_date + days

\* the dates hinted by the request
HintedDate(key) ==
    IF HintOf(genRequest, "dates") = Null THEN Missing ELSE HintOf(genRequest, "dates")[key]

\* the rule on a document of the normalizer
NormalizedSecondDate ==
    (doc # Absent /\ doc.ok) =>
        LET raw_dates == Get(DictOr(rawPayload, PayloadKeys), "dates")
        IN  IF doc.v.doc_type = "QUOTATION"
            THEN doc.v.dates.valid_till =
                     DerivedDate(doc.v.dates.issue_date, Entry(raw_dates, "valid_till"),
                                 HintedDate("valid_till"), 15)
            ELSE doc.v.dates.due_date =
                     DerivedDate(doc.v.dates.issue_date, Entry(raw_dates, "due_date"),
                                 HintedDate("due_date"), 7)

\* the rule on a step of repair: the dates block is dates in app and doc_meta
\* in ai-backend, and a repair has no hints
RepairedSecondDate ==
    (repaired = Absent /\ repaired' # Absent /\ repaired'.ok) =>
        \A i \in 1..Len(DraftsOf(repaired'.v)) :
            LET given == IF i <= Len(DraftsOf(bundleIn)) THEN DraftsOf(bundleIn)[i] ELSE Missing
                block == IF repaired'.service = "app" THEN "dates" ELSE "doc_meta"
                before == Entry(given, block)
                after == Entry(DraftsOf(repaired'.v)[i], block)
                issue_date == IF IsIsoDate(Entry(before, "issue_date"))
                              THEN Entry(before, "issue_date").v ELSE Today
                doc_type == Get(DraftsOf(repaired'.v)[i], "doc_type")
            IN  /\ Entry(after, "issue_date") = DateStr(issue_date)
                /\ IsText(doc_type, "QUOTATION") =>
                       Entry(after, "valid_till") =
                           DateStr(DerivedDate(issue_date, Entry(before, "valid_till"), Missing, 15))
                /\ IsText(doc_type, "TAX_INVOICE") =>
                       Entry(after, "due_date") =
                           DateStr(DerivedDate(issue_date, Entry(before, "due_date"), Missing, 7))

\* C22: the second date is derived from the issue date: a quotation's
\* valid_till is issue_date + 15 and an invoice's due_date is issue_date + 7
\* unless the raw value parses (it wins) or, failing that, a hint gives one;
\* in the normalizer and in both repairs, where a missing or unparseable
\* issue_date is first replaced by the current date
C22_SecondDateDerived == []NormalizedSecondDate /\ [][RepairedSecondDate]_vars

\* the line items of the raw payload and of the request's hints
RawItems == Entry(rawPayload, "items")
HintedItems == IF Truthy(HintOf(genRequest, "items")) THEN HintOf(genRequest, "items").v ELSE <<>>

\* the source the rule resolves the items from
ItemSource ==
    IF IsList(RawItems) /\ RawItems.v # <<>> THEN RawItems.v
    ELSE IF HintedItems # <<>> THEN HintedItems
    ELSE <<>>

\* the item carries the entry's description and its positive numbers
TakenFrom(item, entry) ==
    IsDict(entry) =>
        /\ Truthy(Get(entry, "description")) => item.description = Get(entry, "description")
        /\ \A key \in {"qty", "unit_price", "discount", "tax_rate"} :
               (Get(entry, key).kind \in {"num", "numstr"} /\ Get(entry, key).v > 0) =>
                   item[key] = Get(entry, key).v
        /\ (Get(entry, "qty").kind = "num" /\ Get(entry, "qty").v = 0) => item.qty = Qty(1)

RawGstMode == Entry(Entry(rawPayload, "gst"), "mode")
SellerPlace ==
    IF Truthy(Entry(Entry(rawPayload, "gst"), "place_of_supply"))
    THEN Entry(Entry(rawPayload, "gst"), "place_of_supply")
    ELSE IF genRequest.seller.tax_prefs # Null /\ Truthy(genRequest.seller.tax_prefs.place_of_supply)
    THEN genRequest.seller.tax_prefs.place_of_supply
    ELSE Missing
BuyerPlace == genRequest.buyer.place_of_supply

\* C24: an invoice whose raw payload gives no GST mode, with the seller's
\* place of supply (raw gst block, else tax preferences) and the buyer's both
\* known, gets mode INTRA when the two are equal and INTER otherwise; a mode
\* the raw payload gives is kept
C24_GstModeDerived ==
    InvoiceReturned =>
        /\ Truthy(RawGstMode) => (doc.v.gst # Null /\ doc.v.gst.mode = RawGstMode)
        /\ (~Truthy(RawGstMode) /\ Truthy(SellerPlace) /\ Truthy(BuyerPlace)) =>
               /\ doc.v.gst # Null
               /\ doc.v.gst.mode = IF SellerPlace = BuyerPlace THEN Text("INTRA") ELSE Text("INTER")

\* an invoice came back INTRA because the place of supply of the raw gst
\* block, not the one of the seller's tax preferences, is the buyer's
C24_Witness ==
    /\ InvoiceReturned
    /\ ~Truthy(RawGstMode)
    /\ SellerPlace = Text("MH") /\ BuyerPlace = Text("MH")
    /\ genRequest.seller.tax_prefs # Null
    /\ genRequest.seller.tax_prefs.place_of_supply = Text("KA")
    /\ doc.v.gst.mode = Text("INTRA")

\* the returned document's payment mode is UPI and the seller has a UPI id
UpiLinkDue ==
    /\ doc.v.payment # Null
    /\ doc.v.payment.mode = Text("UPI")
    /\ genRequest.seller.bank # Null
    /\ Truthy(genRequest.seller.bank.upi_id)

\* the upi_deeplink of the raw payload's payment block, None without one
RawDeeplink ==
    LET given == Get(DictOr(Get(DictOr(rawPayload, PayloadKeys), "payment"), PaymentKeys),
                     "upi_deeplink")
    IN  IF given = Missing THEN Null ELSE given

\* C20: in a quotation or invoice the normalizer returns, whenever the
\* resolved payment mode is UPI and the seller has a UPI id the upi_deeplink
\* is a upi://pay? link whose am parameter is the returned grand_total with
\* two decimals; otherwise the normalizer generates no link (the payment, if
\* any, carries what the payload gave)
C20_DeeplinkAfterTotals ==
    (doc # Absent /\ doc.ok) =>
        IF UpiLinkDue
        THEN /\ doc.v.payment.upi_deeplink.kind = "str"
             /\ StartsWith(doc.v.payment.upi_deeplink.v, Scheme)
             /\ ParamValue(doc.v.payment.upi_deeplink.v, K_am) = Format2f(doc.v.totals.grand_total)
        ELSE doc.v.payment = Null \/ doc.v.payment.upi_deeplink = RawDeeplink

\* the payload claims a grand total of 999 with a shipping of 49.50, and the
\* link of the returned document carries the recomputed grand total
C20_Witness ==
    /\ doc # Absent /\ doc.ok
    /\ UpiLinkDue
    /\ IsDict(rawPayload)
    /\ IsDict(Get(rawPayload, "totals"))
    /\ Get(Get(rawPayload, "totals"), "grand_total") = Num(999 * Rupee)
    /\ doc.v.totals.grand_total # 999 * Rupee
    /\ doc.v.totals.shipping = 4950 * Paise
    /\ ParamValue(doc.v.payment.upi_deeplink.v, K_am) = Format2f(doc.v.totals.grand_total)

(* ---------------------------------------------------------------------- *)
(* Provider selection per workspace (ai-backend provider_service.py and   *)
(* api/v1/providers.py)                                                   *)
(* ---------------------------------------------------------------------- *)

ProviderNames == {"openai", "openrouter", "groq"}
ModelNames == {"m1", "m2"}
WorkspaceSet == {"default", "wA", "wB"}

\* no entry of the _selections dict
NoSelection == [provider |-> "", model |-> ""]

\* Settings.default_provider and Settings.default_model of core/config.py
DefaultSelection == [provider |-> "openrouter", model |-> "openrouter/auto"]

\* ProviderService.__init__: a provider instance for each API key that is set
CreateProviderService ==
    /\ _selections = Absent
    /\ _providers' \in SUBSET ProviderNames
    /\ _selections' = [w \in WorkspaceSet |-> NoSelection]
    /\ lastSet' = [w \in WorkspaceSet |-> NoSelection]
    /\ UNCHANGED <<provResponse, outsideProvider>>

\* set_selection storing every selection under the default workspace
set_selection_shared(selections, provider, model, workspace_id) ==
    IF provider \notin _providers THEN Raise(ValueError)
    ELSE Ok([selections EXCEPT !["default"] = [provider |-> provider, model |-> model]])

\* ProviderService.set_selection(provider, model, workspace_id): the
\* _selections it leaves, or ValueError
set_selection(selections, provider, model, workspace_id) ==
    IF provider \notin _providers THEN Raise(ValueError)
    ELSE Ok([selections EXCEPT ![workspace_id] = [provider |-> provider, model |-> model]])

\* ProviderService.get_selection(workspace_id)
get_selection(selections, workspace_id) ==
    IF selections[workspace_id] # NoSelection THEN selections[workspace_id]
    ELSE DefaultSelection

\* an override that is not given: None or the empty string
NoOverride == ""

\* resolve_provider_and_model where an override counts only when both are given
resolve_provider_and_model_paired(selections, provider_override, model_override, workspace_id) ==
    IF provider_override # NoOverride /\ model_override # NoOverride
    THEN [provider |-> provider_override, model |-> model_override]
    ELSE get_selection(selections, workspace_id)

\* ProviderService.resolve_provider_and_model(provider_override,
\* model_override, workspace_id)
resolve_provider_and_model(selections, provider_override, model_override, workspace_id) ==
    IF provider_override # NoOverride /\ model_override # NoOverride
    THEN [provider |-> provider_override, model |-> model_override]
    ELSE LET selection == get_selection(selections, workspace_id)
         IN  [provider |-> IF provider_override # NoOverride THEN provider_override
                           ELSE selection.provider,
              model |-> IF model_override # NoOverride THEN model_override
                        ELSE selection.model]

\* POST /v1/providers/select that stores the selection before it checks the
\* provider
SelectProviderStoring ==
    /\ _selections # Absent
    /\ \E provider \in ProviderNames, model \in ModelNames, workspace_id \in WorkspaceSet :
           /\ _selections' = [_selections EXCEPT ![workspace_id] =
                                  [provider |-> provider, model |-> model]]
           /\ IF provider \in _providers
              THEN /\ lastSet' = [lastSet EXCEPT ![workspace_id] =
                                      [provider |-> provider, model |-> model]]
                   /\ provResponse' = [endpoint |-> "select", status |-> 200,
                                       provider |-> provider, model |-> model,
                                       workspace_id |-> workspace_id]
              ELSE /\ provResponse' = [endpoint |-> "select", status |-> 400,
                                       provider |-> provider, model |-> model,
                                       workspace_id |-> workspace_id]
                   /\ UNCHANGED lastSet
    /\ UNCHANGED <<_providers, outsideProvider>>

\* POST /v1/providers/select
SelectProvider ==
    /\ _selections # Absent
    /\ \E provider \in ProviderNames, model \in ModelNames, workspace_id \in WorkspaceSet :
           LET Answer(outcome) ==
                   IF outcome.ok
                   THEN /\ _selections' = outcome.v
                        /\ lastSet' = [lastSet EXCEPT ![workspace_id] =
                                           [provider |-> provider, model |-> model]]
                        /\ provResponse' = [endpoint |-> "select", status |-> 200,
                                            provider |-> provider, model |-> model,
                                            workspace_id |-> workspace_id]
                   ELSE /\ provResponse' = [endpoint |-> "select", status |-> 400,
                                            provider |-> provider, model |-> model,
                                            workspace_id |-> workspace_id]
                        /\ UNCHANGED <<_selections, lastSet>>
           IN  Answer(set_selection(_selections, provider, model, workspace_id))
    /\ UNCHANGED <<_providers, outsideProvider>>

\* GET /v1/providers/active
GetActiveProvider ==
    /\ _selections # Absent
    /\ \E workspace_id \in WorkspaceSet :
           provResponse' = [endpoint |-> "active", status |-> 200,
                            workspace_id |-> workspace_id]
                               @@ get_selection(_selections, workspace_id)
    /\ UNCHANGED <<_providers, _selections, lastSet, outsideProvider>>

\* POST /v1/draft up to the provider lookup: the provider and model of the
\* request are resolved, and a provider that is not enabled is refused
ResolveForDraft ==
    /\ _selections # Absent
    /\ \E provider_override \in ProviderNames \cup {NoOverride},
          model_override \in ModelNames \cup {NoOverride},
          workspace_id \in WorkspaceSet :
           LET resolved == resolve_provider_and_model(_selections, provider_override,
                                                      model_override, workspace_id)
           IN  provResponse' = [endpoint |-> "draft",
                                status |-> IF resolved.provider \in _providers THEN 200 ELSE 400,
                                workspace_id |-> workspace_id,
                                provider_override |-> provider_override,
                                model_override |-> model_override,
                                provider |-> resolved.provider,
                                model |-> resolved.model]
    /\ UNCHANGED <<_providers, _selections, lastSet, outsideProvider>>

ProviderNext ==
    CreateProviderService \/ SelectProvider \/ GetActiveProvider \/ ResolveForDraft

SpecProvider == Init /\ [][ProviderNext]_vars

\* what get_selection(w) returns is the last successful selection of w, or
\* the configured default where there was none
ActiveIsLastSet ==
    _selections # Absent =>
        \A w \in WorkspaceSet :
            get_selection(_selections, w) =
                IF lastSet[w] # NoSelection THEN lastSet[w] ELSE DefaultSelection

\* a step changes what get_selection(w) returns only when it is a successful
\* select request for the workspace w
OthersUntouched ==
    _selections # Absent =>
        \A w \in WorkspaceSet :
            get_selection(_selections', w) # get_selection(_selections, w) =>
                /\ provResponse'.endpoint = "select"
                /\ provResponse'.status = 200
                /\ provResponse'.workspace_id = w

\* C19: selections are isolated per workspace: get_selection(w) returns the
\* provider and model of the most recent successful set_selection for w, or
\* the configured default, and a set_selection for w never changes what
\* get_selection returns for another workspace
C19_SelectionsIsolated == []ActiveIsLastSet /\ [][OthersUntouched]_vars

\* groq is selected for wA and openai for wB, nothing for the default
\* workspace, and the last select request was refused
C19_Witness ==
    /\ _selections # Absent
    /\ get_selection(_selections, "wA").provider = "groq"
    /\ get_selection(_selections, "wB").provider = "openai"
    /\ get_selection(_selections, "default") = DefaultSelection
    /\ provResponse # Absent
    /\ provResponse.endpoint = "select"
    /\ provResponse.status = 400

\* the value the precedence gives: the override, else what was last stored for
\* the workspace, else the configured default
Precedence(override, workspace_id, field) ==
    IF override # NoOverride THEN override
    ELSE IF lastSet[workspace_id] # NoSelection THEN lastSet[workspace_id][field]
    ELSE DefaultSelection[field]

\* C25: resolve_provider_and_model applies override > workspace selection >
\* configured default, to the provider and to the model each on its own
C25_ResolvePrecedence ==
    (provResponse # Absent /\ provResponse.endpoint = "draft") =>
        /\ provResponse.provider =
               Precedence(provResponse.provider_override, provResponse.workspace_id, "provider")
        /\ provResponse.model =
               Precedence(provResponse.model_override, provResponse.workspace_id, "model")

\* a draft request for wA overrides the provider alone: the provider is the
\* override and the model the one stored for wA
C25_Witness ==
    /\ provResponse # Absent /\ provResponse.endpoint = "draft"
    /\ provResponse.workspace_id = "wA"
    /\ provResponse.provider_override = "groq"
    /\ provResponse.model_override = NoOverride
    /\ lastSet["wA"] = [provider |-> "openai", model |-> "m2"]
    /\ provResponse.provider = "groq" /\ provResponse.model = "m2"

\* a select request naming a provider that is not enabled is refused
RefusedWhenDisabled ==
    (provResponse # Absent /\ provResponse.endpoint = "select") =>
        (provResponse.status = 400 <=> provResponse.provider \notin _providers)

\* every stored selection names an enabled provider
StoredEnabled ==
    _selections # Absent =>
        \A w \in WorkspaceSet :
            _selections[w] # NoSelection => _selections[w].provider \in _providers

\* a refused select request leaves what get_selection returns as it was
RefusalKeepsSelections ==
    (/\ _selections # Absent
     /\ provResponse' # Absent
     /\ provResponse'.endpoint = "select"
     /\ provResponse'.status = 400) =>
        \A w \in WorkspaceSet :
            get_selection(_selections', w) = get_selection(_selections, w)

\* C26: set_selection with a provider that is not enabled fails and leaves
\* the selections unchanged: get_selection returns for every workspace what it
\* returned before the call, and every stored selection names an enabled
\* provider
C26_FailedSelectionKeepsMemory ==
    []RefusedWhenDisabled /\ []StoredEnabled /\ [][RefusalKeepsSelections]_vars

\* a select request for wA naming a provider that is not enabled was refused
\* while wA holds an earlier selection
C26_Witness ==
    /\ provResponse # Absent
    /\ provResponse.endpoint = "select" /\ provResponse.status = 400
    /\ provResponse.workspace_id = "wA"
    /\ provResponse.provider \notin _providers
    /\ _selections["wA"] # NoSelection
    /\ _selections["wA"].provider # provResponse.provider

(* ---------------------------------------------------------------------- *)
(* Rate limiting (app/core/rate_limit.py).  Times are whole seconds.  The *)
(* defaultdict of deques is a function that gives every key a bucket,     *)
(* empty until the key has a hit.                                         *)
(* ---------------------------------------------------------------------- *)

\* the 60 of "time.time() - 60"
WindowSeconds == 60

MaxPerMinute == 2
MaxClock == 62
KeySet == {"k1", "k2"}
PerMinuteSet == 1..MaxPerMinute

\* the seconds that pass between two calls, and between the two readings of
\* the clock within one call
TickSet == {30, 31}
DriftSet == {0, 1}

\* while bucket and bucket[0] < window_start: bucket.popleft()
Evicted(bucket, window_start) ==
    LET stay == {i \in 1..Len(bucket) : bucket[i] >= window_start}
    IN  IF stay = {} THEN <<>> ELSE SubSeq(bucket, Least(stay), Len(bucket))

\* allow that lets one hit more than per_minute into the window
allow_one_over(hits, limit, key, first_reading, second_reading) ==
    LET bucket == Evicted(hits[key], first_reading - WindowSeconds)
    IN  IF Len(bucket) > limit
        THEN [result |-> FALSE, hits |-> [hits EXCEPT ![key] = bucket]]
        ELSE [result |-> TRUE, hits |-> [hits EXCEPT ![key] = Append(bucket, second_reading)]]

\* RateLimiter.allow(key): what it returns and the _hits it leaves; the clock
\* is read once for the window and once more for the hit
allow(hits, limit, key, first_reading, second_reading) ==
    LET bucket == Evicted(hits[key], first_reading - WindowSeconds)
    IN  IF Len(bucket) >= limit
        THEN [result |-> FALSE, hits |-> [hits EXCEPT ![key] = bucket]]
        ELSE [result |-> TRUE, hits |-> [hits EXCEPT ![key] = Append(bucket, second_reading)]]

\* lifespan: RateLimiter(per_minute=settings.rate_limit_per_minute)
CreateRateLimiter ==
    /\ _hits = Absent
    /\ per_minute' \in PerMinuteSet
    /\ _hits' = [key \in KeySet |-> <<>>]
    /\ granted' = [key \in KeySet |-> <<>>]
    /\ UNCHANGED <<clock, allowed, outsideLimiter>>

\* time passes between two calls
Tick ==
    /\ _hits # Absent
    /\ \E seconds \in TickSet :
           /\ clock + seconds <= MaxClock
           /\ clock' = clock + seconds
    /\ UNCHANGED <<per_minute, _hits, granted, allowed, outsideLimiter>>

\* a call of allow(key)
Allow ==
    /\ _hits # Absent
    /\ \E key \in KeySet, drift \in DriftSet :
           LET out == allow(_hits, per_minute, key, clock, clock + drift)
           IN  /\ clock + drift <= MaxClock
               /\ _hits' = out.hits
               /\ clock' = IF out.result THEN clock + drift ELSE clock
               /\ granted' = IF out.result
                             THEN [granted EXCEPT ![key] = Append(@, clock + drift)]
                             ELSE granted
               /\ allowed' = [key |-> key, result |-> out.result]
    /\ UNCHANGED <<per_minute, outsideLimiter>>

LimiterNext == CreateRateLimiter \/ Tick \/ Allow

SpecLimiter == Init /\ [][LimiterNext]_vars

\* the calls for the key that returned true within the 60 seconds from start
WindowCount(key, start) ==
    Cardinality({i \in 1..Len(granted[key]) :
                    granted[key][i] >= start /\ granted[key][i] <= start + WindowSeconds})

\* no window of 60 seconds holds more than per_minute granted calls of a key
AtMostPerMinute ==
    _hits # Absent =>
        \A key \in KeySet, start \in 0..MaxClock : WindowCount(key, start) <= per_minute

\* the bucket is what is left of another after hits were dropped at its head
IsSuffix(bucket, other) ==
    \E n \in 0..Len(other) : bucket = SubSeq(other, n + 1, Len(other))

\* a bucket gains a hit only by a call for its key that returned true
NoHitOnDenial ==
    _hits # Absent =>
        \A key \in KeySet :
            ~IsSuffix(_hits'[key], _hits[key]) =>
                /\ allowed' # Absent
                /\ allowed'.key = key
                /\ allowed'.result

\* a step that is not a call for the key leaves the key's bucket alone, and
\* with it the outcome of a call for the key at any later time
KeysIndependent ==
    _hits # Absent =>
        \A key \in KeySet :
            (allowed' = Absent \/ allowed'.key # key) =>
                /\ _hits'[key] = _hits[key]
                /\ \A at \in clock'..MaxClock :
                       allow(_hits', per_minute, key, at, at).result
                           = allow(_hits, per_minute, key, at, at).result

\* C27: with a clock that never goes back, the calls of allow for a key that
\* returned true within any window of 60 seconds number at most per_minute;
\* a call that returns false records no hit; calls for one key do not change
\* the outcome of calls for another
C27_RateLimited == []AtMostPerMinute /\ [][NoHitOnDenial /\ KeysIndependent]_vars

\* with one hit a minute, k1 was granted at second 0 and is refused 60 seconds
\* later, its hit still kept, while k2 was granted in between
C27_Witness ==
    /\ _hits # Absent
    /\ per_minute = 1
    /\ clock = WindowSeconds
    /\ granted["k1"] = <<0>> /\ _hits["k1"] = <<0>>
    /\ granted["k2"] = <<30>>
    /\ allowed # Absent
    /\ allowed.key = "k1" /\ ~allowed.result

====
